---- MODULE Spec2Model ----
(***************************************************************************)
(* A model of the orchestration layer of whitenoise-cli: the account      *)
(* session (account.rs, storage.rs), the direct-message group resolution  *)
(* (groups.rs) and the batch runner (cli_handler.rs).  The messaging      *)
(* engine (the whitenoise crate) is the environment: every call into it   *)
(* may fail, and its answers are chosen nondeterministically.             *)
(*                                                                         *)
(* Option<T> is modelled as a sequence of length at most one:             *)
(* <<>> is None and <<x>> is Some(x).                                      *)
(***************************************************************************)
EXTENDS Integers, Sequences, FiniteSets, TLC

(***************************************************************************)
(* Bounds of the model.                                                    *)
(***************************************************************************)
\* Largest number of groups the engine holds when a run starts.
MaxInitGroups == 1
\* Number of get_or_create_dm_group / find_dm_group calls made in a run.
MaxCalls == 2
\* Largest number of operations in a batch file.
MaxOps == 2
\* Number of RelayManager operations made in a run.
MaxRelayOps == 2
\* Number of group creations attempted in a run.
MaxGroupOps == 2
\* Largest number of messages the engine holds for a group.
MaxMessages == 3
\* Largest --limit given to `message list` / `message list-dm`.
MaxLimit == 4
\* Number of pointer operations of Storage called in a run.
MaxStorageOps == 3
\* Number of KeyringHelper calls made in a run.
MaxKeyOps == 2

(***************************************************************************)
(* Public keys.  A PublicKey is modelled as one byte (the real key has 32);*)
(* to_hex / from_hex convert between the byte and its hex string, which   *)
(* is a sequence of one-character strings.                                 *)
(***************************************************************************)
KeyA == 16 * 10 + 10      \* 0xaa
KeyB == 16 * 11 + 11      \* 0xbb
KeyC == 16 * 12 + 12      \* 0xcc
Keys == {KeyA, KeyB, KeyC}

HexDigits == <<"0", "1", "2", "3", "4", "5", "6", "7",
               "8", "9", "a", "b", "c", "d", "e", "f">>
UpperHexDigits == <<"0", "1", "2", "3", "4", "5", "6", "7",
                    "8", "9", "A", "B", "C", "D", "E", "F">>

IsHexChar(c) ==
    \E i \in 1..16 : HexDigits[i] = c \/ UpperHexDigits[i] = c

HexVal(c) ==
    (CHOOSE i \in 1..16 : HexDigits[i] = c \/ UpperHexDigits[i] = c) - 1

\* PublicKey::to_hex: lower-case hex of the key bytes.
to_hex(pk) == << HexDigits[(pk \div 16) + 1], HexDigits[(pk % 16) + 1] >>

\* PublicKey::from_hex: Some(key) for a well-formed hex string, None otherwise.
from_hex(s) ==
    IF Len(s) = 2 /\ IsHexChar(s[1]) /\ IsHexChar(s[2])
    THEN << HexVal(s[1]) * 16 + HexVal(s[2]) >>
    ELSE <<>>

IsWhitespace(c) == c \in {" ", "\n", "\t", "\r"}

RECURSIVE TrimStart(_)
TrimStart(s) ==
    IF s = <<>> THEN <<>>
    ELSE IF IsWhitespace(Head(s)) THEN TrimStart(Tail(s)) ELSE s

RECURSIVE TrimEnd(_)
TrimEnd(s) ==
    IF s = <<>> THEN <<>>
    ELSE IF IsWhitespace(s[Len(s)]) THEN TrimEnd(SubSeq(s, 1, Len(s) - 1)) ELSE s

\* str::trim
Trim(s) == TrimEnd(TrimStart(s))

(***************************************************************************)
(* State.                                                                  *)
(***************************************************************************)
VARIABLES
    \* ---- the process and AccountManager (account.rs) ----
    proc,             \* "down" | "up" | "failed": the process and its start-up
    current_account,  \* AccountManager.current_account : Option<Account>
    pointer_file,     \* .whitenoise-cli/current_account_pubkey.txt
    last,             \* outcome of the latest session operation (history)
    \* ---- the engine (whitenoise crate), as seen through its API ----
    eng_accounts,     \* accounts in the engine's database: pubkey -> Account
    eng_groups,       \* groups in the order fetch_groups returns them
    last_request,     \* Option<the latest create_group request the engine received>
    created_for,      \* peer -> ids of the DM groups this layer created for the peer
    \* ---- callers of GroupManager::get_or_create_dm_group (groups.rs) ----
    cpc,              \* caller -> "idle" | "looked" | "done"
    ccall,            \* caller -> the call in progress / just finished
    ncalls,           \* number of calls started
    first_ok,         \* peer -> Option<id returned by the first call that succeeded>
    find_log,         \* peer -> Option<result of the latest successful lookup
                      \*                 made since the groups last changed>
    overlapped,       \* TRUE once two calls were in progress at the same time
    \* ---- the batch runner (cli_handler.rs) ----
    ops,              \* batch.operations
    idx,              \* position of the for loop in batch.operations
    results,          \* the results vector
    dispatched,       \* index -> number of times the operation was dispatched
    bpc,              \* "parse" | "loop" | "await" | "done"
    cur,              \* the operation in progress and the engine call it awaits
    inflight,         \* number of mutating engine calls in flight
    contacts,         \* ContactManager.contacts (keyed by pubkey)
    config,           \* RelayManager.config
    \* ---- history, for the properties ----
    act,              \* how the latest account activation went
    repaired,         \* keys the engine's relay repair was invoked for since
                      \* the process started
    rlast,            \* the latest operation on the RelayManager
    glast,            \* the latest group creation this layer attempted
    clast,            \* how the latest non-interactive command ended
    slast,            \* the latest call of the pointer operations of Storage
    \* ---- the key store (keyring_helper.rs) ----
    keystore,         \* ~/.whitenoise_keys.json
    klast             \* the latest call of the KeyringHelper (history)

sessionVars == <<proc, current_account, pointer_file, last>>
engineVars  == <<eng_accounts, eng_groups, last_request, created_for>>
callerVars  == <<cpc, ccall, ncalls, first_ok, find_log, overlapped>>
batchVars   == <<ops, idx, results, dispatched, bpc, cur, inflight, contacts, config>>
historyVars == <<act, repaired, rlast>>
traceVars   == <<glast, clast, slast, keystore, klast>>
vars == <<sessionVars, engineVars, callerVars, batchVars, historyVars, traceVars>>

(***************************************************************************)
(* Storage (storage.rs): the persisted active-account pointer.  A file is  *)
(* [exists, content]; every file-system call may fail.                     *)
(***************************************************************************)
AbsentFile == [exists |-> FALSE, content |-> <<>>]

\* How std::fs::write can end: written, failed before the file was touched,
\* or failed after the file was created/truncated.
WriteOutcomes == {"written", "failed_untouched", "failed_truncated"}

\* A save that reports success and leaves the file as it was.
save_current_account_pubkey_Skipped(file, pubkey, wr) == [ok |-> TRUE, file |-> file]

\* Storage::save_current_account_pubkey
save_current_account_pubkey(file, pubkey, wr) ==
    CASE wr = "written" ->
            [ok |-> TRUE, file |-> [exists |-> TRUE, content |-> pubkey]]
      [] wr = "failed_untouched" ->
            [ok |-> FALSE, file |-> file]
      [] OTHER ->
            [ok |-> FALSE, file |-> [exists |-> TRUE, content |-> <<>>]]

\* A load that never finds the file.
load_current_account_pubkey_NoFile(file, rd_ok) == [ok |-> TRUE, value |-> <<>>]

\* Storage::load_current_account_pubkey: Ok(None) when the file is absent,
\* Err when it exists and cannot be read, Ok(Some(trimmed content)) otherwise.
load_current_account_pubkey(file, rd_ok) ==
    IF ~file.exists THEN [ok |-> TRUE, value |-> <<>>]
    ELSE IF ~rd_ok THEN [ok |-> FALSE, value |-> <<>>]
    ELSE [ok |-> TRUE, value |-> << Trim(file.content) >>]

\* A clear that reports success and leaves the file as it was.
clear_current_account_Kept(file, rm_ok) == [ok |-> TRUE, file |-> file]

\* Storage::clear_current_account
clear_current_account(file, rm_ok) ==
    IF file.exists
    THEN IF rm_ok THEN [ok |-> TRUE, file |-> AbsentFile]
                  ELSE [ok |-> FALSE, file |-> file]
    ELSE [ok |-> TRUE, file |-> file]

(***************************************************************************)
(* The engine's account API, as this layer uses it.                        *)
(***************************************************************************)
EngineDefaultRelays == <<"wss://relay.damus.io">>
RelayListChoices == {<<>>, EngineDefaultRelays}

\* An account as the engine returns it; Account(pk, relays) has the same
\* list for its three roles.
AccountWith(pk, nip65, inbox, key_package) ==
    [pubkey |-> pk, nip65_relays |-> nip65, inbox_relays |-> inbox,
     key_package_relays |-> key_package]

Account(pk, relays) == AccountWith(pk, relays, relays, relays)

\* The credentials tried in the model and the key each one belongs to
\* (None: the engine rejects it).
Credentials == {"nsecA", "nsecB", "garbage"}
CredentialKey(cred) ==
    CASE cred = "nsecA" -> <<KeyA>>
      [] cred = "nsecB" -> <<KeyB>>
      [] OTHER -> <<>>

\* whitenoise.login: the account of the credential; an account the engine does
\* not hold yet is created with the relay lists new_relays.
EngineLogin(accounts, cred, new_relays) ==
    LET k == CredentialKey(cred) IN
    IF k = <<>> THEN <<>>
    ELSE IF accounts[k[1]] # <<>> THEN accounts[k[1]]
    ELSE << Account(k[1], new_relays) >>

\* whitenoise.get_account
EngineGetAccount(accounts, pk) ==
    IF pk \in DOMAIN accounts THEN accounts[pk] ELSE <<>>

\* whitenoise.fix_account_empty_relays(&mut account): on Ok the account has
\* relays; on Err the account is left as it was.
EngineFixEmptyRelays(account, fix_ok) ==
    IF fix_ok /\ account.nip65_relays = <<>>
    THEN Account(account.pubkey, EngineDefaultRelays)
    ELSE account

(***************************************************************************)
(* History of the latest session operation, for the properties.            *)
(***************************************************************************)
NoLast ==
    [op |-> "none", ok |-> TRUE, rejected |-> FALSE,
     before_account |-> <<>>, before_pointer |-> AbsentFile,
     pointer_present |-> FALSE, engine_returned |-> <<>>, engine_logouts |-> 0]

Outcome(op, ok, rejected, present, returned, logouts) ==
    [op |-> op, ok |-> ok, rejected |-> rejected,
     before_account |-> current_account, before_pointer |-> pointer_file,
     pointer_present |-> present, engine_returned |-> returned,
     engine_logouts |-> logouts]

\* How the latest activation went: the path ("resume", "login", "create",
\* "select"), the account as the engine returned it, whether the engine's
\* fix_account_empty_relays was invoked for it, whether that invocation
\* failed, whether it had been invoked for the same key earlier in this
\* process, whether another step of the call failed, and the call's result.
NoAct ==
    [path |-> "none", returned |-> <<>>, repair_called |-> FALSE,
     repair_failed |-> FALSE, repeated |-> FALSE, other_failure |-> FALSE,
     ok |-> TRUE]

Activation(path, returned, called, fix_ok, other_failure, ok) ==
    [path |-> path, returned |-> returned, repair_called |-> called,
     repair_failed |-> called /\ ~fix_ok,
     repeated |-> called /\ returned[1].pubkey \in repaired,
     other_failure |-> other_failure, ok |-> ok]

\* The keys repaired so far, after an activation of `returned`.
Repaired(before, returned, called) ==
    IF called THEN before \cup {returned[1].pubkey} ELSE before

(***************************************************************************)
(* AccountManager (account.rs).                                            *)
(***************************************************************************)
\* A resume that gives up when the relay repair fails.
auto_login_by_pubkey_Strict(accounts, pubkey, engine_up, fix_ok) ==
    IF ~engine_up \/ ~fix_ok THEN <<>>
    ELSE LET pk == from_hex(pubkey) IN
         IF pk = <<>> THEN <<>> ELSE EngineGetAccount(accounts, pk[1])

\* AccountManager::auto_login_by_pubkey: Some(account) when the engine is up,
\* the string parses as a key and the engine returns the account; the relay
\* repair is attempted and its failure ignored.
auto_login_by_pubkey(accounts, pubkey, engine_up, fix_ok) ==
    IF ~engine_up THEN <<>>
    ELSE LET pk == from_hex(pubkey) IN
         IF pk = <<>> THEN <<>>
         ELSE LET got == EngineGetAccount(accounts, pk[1]) IN
              IF got = <<>> THEN <<>>
              ELSE << EngineFixEmptyRelays(got[1], fix_ok) >>

\* AccountManager::new: Err when Storage::new fails or the pointer cannot be
\* read; otherwise Ok with the account auto_login_by_pubkey produced, if any.
AccountManager_new(file, accounts, dir_ok, rd_ok, engine_up, fix_ok) ==
    IF ~dir_ok THEN [ok |-> FALSE, account |-> <<>>]
    ELSE LET loaded == load_current_account_pubkey(file, rd_ok) IN
         IF ~loaded.ok THEN [ok |-> FALSE, account |-> <<>>]
         ELSE IF loaded.value = <<>> THEN [ok |-> TRUE, account |-> <<>>]
         ELSE [ok |-> TRUE,
               account |-> auto_login_by_pubkey(accounts, loaded.value[1],
                                                engine_up, fix_ok)]

\* What the engine answers to the get_account of a resume from this pointer
\* file (None when the call is not made or fails).
EngineAnswerForPointer(file, accounts, engine_up) ==
    IF ~file.exists \/ ~engine_up THEN <<>>
    ELSE LET pk == from_hex(Trim(file.content)) IN
         IF pk = <<>> THEN <<>> ELSE EngineGetAccount(accounts, pk[1])

\* Process start: App::new -> AccountManager::new (resume).
Startup ==
    /\ proc = "down"
    /\ \E dir_ok \in BOOLEAN, rd_ok \in BOOLEAN, engine_up \in BOOLEAN, fix_ok \in BOOLEAN :
         \* the data directory exists when the pointer file inside it does
         /\ pointer_file.exists => dir_ok
         /\ LET r == AccountManager_new(pointer_file, eng_accounts, dir_ok,
                                        rd_ok, engine_up, fix_ok)
                answer == EngineAnswerForPointer(pointer_file, eng_accounts,
                                                 engine_up /\ rd_ok)
            IN /\ proc' = IF r.ok THEN "up" ELSE "failed"
               /\ current_account' = r.account
               /\ eng_accounts' =
                    IF r.account # <<>>
                    THEN [eng_accounts EXCEPT ![r.account[1].pubkey] = r.account]
                    ELSE eng_accounts
               /\ last' = Outcome("startup", r.ok, FALSE, pointer_file.exists,
                                  answer, 0)
               /\ act' = Activation("resume", answer, answer # <<>>, fix_ok,
                                     ~r.ok, r.ok)
               /\ repaired' = Repaired({}, answer, answer # <<>>)
    /\ UNCHANGED <<traceVars, pointer_file, eng_groups, last_request, created_for, callerVars,
                   batchVars, rlast>>

\* AccountManager::login
Login ==
    /\ proc = "up"
    /\ \E cred \in Credentials, engine_up \in BOOLEAN, fix_ok \in BOOLEAN,
          new_relays \in RelayListChoices, wr \in WriteOutcomes :
         LET got == IF engine_up
                    THEN EngineLogin(eng_accounts, cred, new_relays) ELSE <<>>
         IN IF got = <<>>
            THEN \* get_instance or whitenoise.login failed: `?` returns the error
                 \* (with the engine up, the failure is the engine rejecting the credential)
                 /\ last' = Outcome("login", FALSE, engine_up, FALSE, <<>>, 0)
                 /\ UNCHANGED <<current_account, pointer_file, eng_accounts, act,
                                repaired>>
            ELSE LET account == EngineFixEmptyRelays(got[1], fix_ok)
                     saved == save_current_account_pubkey(
                                  pointer_file, to_hex(account.pubkey), wr)
                 IN /\ current_account' = <<account>>
                    /\ pointer_file' = saved.file
                    /\ eng_accounts' =
                         [eng_accounts EXCEPT ![account.pubkey] = <<account>>]
                    /\ last' = Outcome("login", saved.ok, FALSE, FALSE, got, 0)
                    /\ act' = Activation("login", got, TRUE, fix_ok, ~saved.ok,
                                          saved.ok)
                    /\ repaired' = Repaired(repaired, got, TRUE)
    /\ UNCHANGED <<traceVars, proc, eng_groups, last_request, created_for, callerVars,
                   batchVars, rlast>>

\* AccountManager::logout
Logout ==
    /\ proc = "up"
    /\ \E engine_up \in BOOLEAN, eng_ok \in BOOLEAN, rm_ok \in BOOLEAN :
         IF current_account = <<>>
         THEN /\ last' = Outcome("logout", TRUE, FALSE, FALSE, <<>>, 0)
              /\ UNCHANGED <<current_account, pointer_file, eng_accounts>>
         ELSE IF ~engine_up
         THEN /\ last' = Outcome("logout", FALSE, FALSE, FALSE, <<>>, 0)
              /\ UNCHANGED <<current_account, pointer_file, eng_accounts>>
         ELSE IF ~eng_ok
         THEN \* whitenoise.logout was called and failed
              /\ last' = Outcome("logout", FALSE, FALSE, FALSE, <<>>, 1)
              /\ UNCHANGED <<current_account, pointer_file, eng_accounts>>
         ELSE LET cleared == clear_current_account(pointer_file, rm_ok)
              IN /\ current_account' = <<>>
                 /\ pointer_file' = cleared.file
                 /\ eng_accounts' =
                      [eng_accounts EXCEPT ![current_account[1].pubkey] = <<>>]
                 /\ last' = Outcome("logout", cleared.ok, FALSE, FALSE, <<>>, 1)
    /\ UNCHANGED <<traceVars, proc, eng_groups, last_request, created_for, callerVars,
                   batchVars, historyVars>>

\* AccountManager::set_current_account
set_current_account_KeepFirst(current, account) ==
    IF current = <<>> THEN << account >> ELSE current

set_current_account(current, account) == << account >>

\* AccountManager::fetch_accounts / whitenoise.fetch_accounts: the keys of the
\* accounts the engine holds (None: the call failed).
fetch_accounts(accounts, eng_ok) ==
    IF eng_ok THEN << { k \in DOMAIN accounts : accounts[k] # <<>> } >> ELSE <<>>

\* App::auto_login_by_pubkey (the --account option): the account it makes
\* active, as the engine returned it and as it is after the repair attempt.
App_auto_login_by_pubkey(accounts, pubkey_hex, list_ok, get_ok, fix_ok) ==
    LET pk == from_hex(pubkey_hex)
        listed == fetch_accounts(accounts, list_ok)
    IN IF pk = <<>> THEN [ok |-> FALSE, returned |-> <<>>, account |-> <<>>]
       ELSE IF listed = <<>> THEN [ok |-> FALSE, returned |-> <<>>, account |-> <<>>]
       ELSE IF pk[1] \notin listed[1]
       THEN [ok |-> FALSE, returned |-> <<>>, account |-> <<>>]
       ELSE IF ~get_ok THEN [ok |-> FALSE, returned |-> <<>>, account |-> <<>>]
       ELSE [ok |-> TRUE, returned |-> accounts[pk[1]],
             account |-> << EngineFixEmptyRelays(accounts[pk[1]][1], fix_ok) >>]

\* The values given to --account in the model.
AccountOptions == {to_hex(KeyA), to_hex(KeyB), to_hex(KeyC), <<"z", "z">>}

\* CliHandler::new with --account, after App::new: the explicit selection;
\* its error is the error of the construction.
SelectAccount ==
    /\ proc = "up"
    /\ last.op = "startup"
    /\ \E pubkey_hex \in AccountOptions, list_ok \in BOOLEAN, get_ok \in BOOLEAN,
          fix_ok \in BOOLEAN :
         LET r == App_auto_login_by_pubkey(eng_accounts, pubkey_hex, list_ok,
                                           get_ok, fix_ok)
         IN /\ last' = Outcome("select", r.ok, FALSE, FALSE, r.returned, 0)
            /\ IF r.ok
               THEN /\ proc' = "up"
                    /\ current_account' = set_current_account(current_account,
                                                              r.account[1])
                    /\ eng_accounts' =
                         [eng_accounts EXCEPT ![r.account[1].pubkey] = r.account]
                    /\ act' = Activation("select", r.returned, TRUE, fix_ok,
                                          FALSE, TRUE)
                    /\ repaired' = Repaired(repaired, r.returned, TRUE)
               ELSE /\ proc' = "failed"
                    /\ UNCHANGED <<current_account, eng_accounts, act, repaired>>
    /\ UNCHANGED <<traceVars, pointer_file, eng_groups, last_request, created_for, callerVars,
                   batchVars, rlast>>

\* The process ends: its memory is gone, the files and the engine's database stay.
Exit ==
    /\ proc \in {"up", "failed"}
    /\ proc' = "down"
    /\ current_account' = <<>>
    /\ last' = NoLast
    /\ act' = NoAct
    /\ repaired' = {}
    /\ UNCHANGED <<traceVars, pointer_file, engineVars, callerVars, batchVars, rlast>>

(***************************************************************************)
(* The engine's group API, as this layer uses it.  A group is              *)
(* [id, group_type, members]; fetch_groups returns eng_groups in order.    *)
(***************************************************************************)
Group(id, gtype, members) == [id |-> id, group_type |-> gtype, members |-> members]

SeqToSet(q) == { q[i] : i \in 1..Len(q) }

\* The discriminant the engine gives a group it creates: a group of two
\* members is a DirectMessage group.
EngineGroupType(all_members) ==
    IF Cardinality(all_members) = 2 THEN "DirectMessage" ELSE "Group"

\* whitenoise.create_group: the engine adds the creator to the members itself
\* and refuses a member list that names the creator (groups.rs, the comment at
\* the call: "creator should not be included in member list"), or an admin
\* list that does not; eng_ok = FALSE is any other failure of the call.
\* Some(group) on success.
EngineCreateGroup(groups, creator, members, admins, eng_ok) ==
    IF \/ ~eng_ok
       \/ creator \in SeqToSet(members)
       \/ creator \notin SeqToSet(admins)
       \/ ~(SeqToSet(admins) \subseteq SeqToSet(members) \cup {creator})
    THEN <<>>
    ELSE LET all == SeqToSet(members) \cup {creator}
         IN << Group(Len(groups) + 1, EngineGroupType(all), all) >>

(***************************************************************************)
(* GroupManager (groups.rs): direct-message group resolution.              *)
(***************************************************************************)
\* The test of find_dm_group on one group, given its members as fetched.
\* (a test that counts the creator apart from the two members)
IsDmBetween_CreatorApart(group, account, recipient) ==
    /\ Cardinality(group.members) = 3
    /\ account \in group.members
    /\ recipient \in group.members

IsDmBetween(group, account, recipient) ==
    /\ Cardinality(group.members) = 2
    /\ account \in group.members
    /\ recipient \in group.members

\* A scan that keeps the last match instead of returning at the first.
RECURSIVE ScanForDm_Last(_, _, _, _, _)
ScanForDm_Last(groups, i, account, recipient, fail_at) ==
    IF i > Len(groups) THEN [ok |-> TRUE, found |-> <<>>]
    ELSE LET rest == ScanForDm_Last(groups, i + 1, account, recipient, fail_at)
         IN IF groups[i].group_type # "DirectMessage" THEN rest
            ELSE IF groups[i].id = fail_at THEN [ok |-> FALSE, found |-> <<>>]
            ELSE IF ~rest.ok THEN rest
            ELSE IF rest.found # <<>> THEN rest
            ELSE IF IsDmBetween(groups[i], account, recipient)
                 THEN [ok |-> TRUE, found |-> << groups[i].id >>]
            ELSE rest

\* The loop of find_dm_group from position i: the groups that are not
\* DirectMessage are skipped without a member fetch; a failing member fetch
\* (the group fail_at) ends the call with an error.
RECURSIVE ScanForDm(_, _, _, _, _)
ScanForDm(groups, i, account, recipient, fail_at) ==
    IF i > Len(groups) THEN [ok |-> TRUE, found |-> <<>>]
    ELSE IF groups[i].group_type # "DirectMessage"
         THEN ScanForDm(groups, i + 1, account, recipient, fail_at)
    ELSE IF groups[i].id = fail_at THEN [ok |-> FALSE, found |-> <<>>]
    ELSE IF IsDmBetween(groups[i], account, recipient)
         THEN [ok |-> TRUE, found |-> << groups[i].id >>]
    ELSE ScanForDm(groups, i + 1, account, recipient, fail_at)

\* What the engine fails during a lookup: nothing (0), fetch_groups (-1), or
\* the fetch_group_members of the group with id fail_at > 0.
LookupFailures(groups) == {-1, 0} \cup { groups[i].id : i \in 1..Len(groups) }

\* GroupManager::find_dm_group: Err when fetch_groups or a member fetch fails,
\* Ok(Some(id)) / Ok(None) otherwise.
find_dm_group(groups, account, recipient, fail_at) ==
    IF fail_at = -1 THEN [ok |-> FALSE, found |-> <<>>]
    ELSE ScanForDm(groups, 1, account.pubkey, recipient, fail_at)

\* get_or_create_dm_group goes on to create a group when the lookup found none.
NeedsCreate_Always(found) == TRUE

NeedsCreate(found) == found = <<>>

\* The relay list of a new group: the account's nip65 relays, or, when these
\* are empty, what fetch_relays_from returns (None: the fetch failed).
GroupRelays(account, net_relays) ==
    IF account.nip65_relays = <<>> THEN net_relays ELSE << account.nip65_relays >>

\* The create_group request get_or_create_dm_group sends for a recipient.
DmCreateRequest(account, recipient, relays) ==
    [creator |-> account.pubkey,
     members |-> << recipient >>,
     admins |-> << account.pubkey, recipient >>,
     relays |-> relays,
     kind |-> "dm"]

(***************************************************************************)
(* RelayManager (relays.rs): the local relay cache.                        *)
(***************************************************************************)
\* The scheme of a relay-url string of the model ("" when it does not parse).
UrlScheme(url) ==
    CASE url \in {"ws://localhost:10547"} -> "ws"
      [] url \in {"wss://relay.damus.io", "wss://relay.primal.net", "wss://nos.lol",
                  "wss://relay.nostr.net", "wss://purplepag.es",
                  "wss://relay.purplepag.es", "wss://new.example"} -> "wss"
      [] url \in {"http://example.com"} -> "http"
      [] OTHER -> ""

\* RelayManager::test_relay_connection: the url parses and starts with ws:// or wss://.
test_relay_connection(url) == UrlScheme(url) \in {"ws", "wss"}

\* RelayUrl::parse, as update_relays uses it.
RelayUrlParses(url) == UrlScheme(url) \in {"ws", "wss"}

Contains_Never(list, x) == FALSE

Contains(list, x) == \E i \in 1..Len(list) : list[i] = x

\* The engine's record of an account for a role.
RoleRelays(account, relay_type) ==
    CASE relay_type = "Nostr" -> account.nip65_relays
      [] relay_type = "Inbox" -> account.inbox_relays
      [] OTHER -> account.key_package_relays

\* A fetch that answers from the local cache.
fetch_relays_FromCache(accounts, cfg, pubkey, relay_type, eng_ok) ==
    [ok |-> TRUE, relays |-> cfg[relay_type]]

\* RelayManager::fetch_relays: the list of the role in the account the engine
\* returns for the key; Err when get_account fails.
fetch_relays(accounts, cfg, pubkey, relay_type, eng_ok) ==
    IF ~eng_ok \/ accounts[pubkey] = <<>>
    THEN [ok |-> FALSE, relays |-> <<>>]
    ELSE [ok |-> TRUE, relays |-> RoleRelays(accounts[pubkey][1], relay_type)]

\* A replacement that stores the entries that parse and reports the others.
update_relays_Partial(cfg, relay_type, relays) ==
    [ok |-> \A i \in 1..Len(relays) : RelayUrlParses(relays[i]),
     config |-> [cfg EXCEPT ![relay_type] = SelectSeq(relays, RelayUrlParses)]]

\* RelayManager::update_relays: all-or-nothing replacement of one role's list.
update_relays(cfg, relay_type, relays) ==
    IF \A i \in 1..Len(relays) : RelayUrlParses(relays[i])
    THEN [ok |-> TRUE, config |-> [cfg EXCEPT ![relay_type] = relays]]
    ELSE [ok |-> FALSE, config |-> cfg]

\* An add that appends without looking at the list.
add_relay_to_type_Unchecked(cfg, relay_type, url) ==
    IF ~test_relay_connection(url) THEN [ok |-> FALSE, config |-> cfg]
    ELSE update_relays(cfg, relay_type, Append(cfg[relay_type], url))

\* RelayManager::add_relay_to_type
add_relay_to_type(cfg, relay_type, url) ==
    IF ~test_relay_connection(url) THEN [ok |-> FALSE, config |-> cfg]
    ELSE IF Contains(cfg[relay_type], url) THEN [ok |-> TRUE, config |-> cfg]
    ELSE update_relays(cfg, relay_type, Append(cfg[relay_type], url))

\* The position of the first occurrence of x in list (0: none).
FirstIndex(list, x) ==
    IF Contains(list, x)
    THEN CHOOSE i \in 1..Len(list) :
           list[i] = x /\ \A j \in 1..(i - 1) : list[j] # x
    ELSE 0

\* A remove that drops the first occurrence only.
remove_relay_from_type_First(cfg, relay_type, url) ==
    LET list == cfg[relay_type]
        at == FirstIndex(list, url)
    IN IF at = 0 THEN update_relays(cfg, relay_type, list)
       ELSE update_relays(cfg, relay_type,
                          SubSeq(list, 1, at - 1) \o SubSeq(list, at + 1, Len(list)))

\* RelayManager::remove_relay_from_type: retain the other urls, update_relays.
remove_relay_from_type(cfg, relay_type, url) ==
    update_relays(cfg, relay_type, SelectSeq(cfg[relay_type], LAMBDA u : u # url))

UnwantedRelays_First == {"wss://purplepag.es"}

UnwantedRelays == {"wss://purplepag.es", "wss://relay.purplepag.es"}

\* RelayManager::cleanup_unwanted_relays
cleanup_unwanted_relays(cfg) ==
    [t \in DOMAIN cfg |-> SelectSeq(cfg[t], LAMBDA u : u \notin UnwantedRelays)]

\* str::to_lowercase on the role names of the model.
ToLowercase(name) ==
    CASE name = "Nostr" -> "nostr"
      [] name = "Inbox" -> "inbox"
      [] name = "KeyPackage" -> "keypackage"
      [] OTHER -> name

\* CliHandler::parse_relay_type: Some(role) / None.
parse_relay_type(name) ==
    LET n == ToLowercase(name) IN
    CASE n = "nostr" -> <<"Nostr">>
      [] n = "inbox" -> <<"Inbox">>
      [] n \in {"keypackage", "key_package"} -> <<"KeyPackage">>
      [] OTHER -> <<>>

\* AppExtensions::setup_default_relays: the three update_relays calls (their
\* errors ignored), then the cleanup.
setup_default_relays(cfg) ==
    LET c1 == update_relays(cfg, "Nostr",
                  <<"wss://relay.damus.io", "wss://relay.primal.net", "wss://nos.lol">>).config
        c2 == update_relays(c1, "Inbox",
                  <<"wss://relay.damus.io", "wss://relay.primal.net">>).config
        c3 == update_relays(c2, "KeyPackage",
                  <<"wss://relay.damus.io", "wss://nos.lol">>).config
    IN cleanup_unwanted_relays(c3)

\* `account create`: AccountManager::create_identity, then the default-relay
\* setup of the handler.  The engine generates a key nobody holds a
\* credential for (KeyC in the model); the creation fails when the engine
\* holds that account already.
CreateIdentity ==
    /\ proc = "up"
    /\ \E eng_ok \in BOOLEAN, new_relays \in RelayListChoices, key \in {KeyC} :
         IF ~eng_ok \/ eng_accounts[key] # <<>>
         THEN /\ last' = Outcome("create", FALSE, FALSE, FALSE, <<>>, 0)
              /\ UNCHANGED <<current_account, eng_accounts, config, act>>
         ELSE LET account == Account(key, new_relays)
              IN /\ current_account' = << account >>
                 /\ eng_accounts' = [eng_accounts EXCEPT ![key] = << account >>]
                 /\ config' = setup_default_relays(config)
                 /\ last' = Outcome("create", TRUE, FALSE, FALSE, << account >>, 0)
                 /\ act' = Activation("create", << account >>, FALSE, TRUE, FALSE,
                                       TRUE)
    /\ UNCHANGED <<traceVars, proc, pointer_file, eng_groups, last_request, created_for,
                   callerVars, ops, idx, results, dispatched, bpc, cur, inflight,
                   contacts, repaired, rlast>>

(***************************************************************************)
(* Quiescent values of the parts of the state a specification leaves alone.*)
(***************************************************************************)
Callers == {1, 2}

NoCall == [kind |-> "none", peer |-> KeyA, started_after |-> <<>>, prev |-> <<>>,
           ngroups |-> 0, engine_failed |-> FALSE, lookup_ok |-> FALSE,
           found |-> <<>>, requested |-> FALSE, ok |-> FALSE, id |-> 0]

\* RelayConfig::default
DefaultConfig ==
    [Nostr |-> <<"ws://localhost:10547", "wss://relay.damus.io",
                 "wss://relay.primal.net", "wss://nos.lol", "wss://relay.nostr.net">>,
     Inbox |-> <<"ws://localhost:10547", "wss://relay.damus.io",
                 "wss://relay.primal.net", "wss://relay.nostr.net">>,
     KeyPackage |-> <<"ws://localhost:10547", "wss://relay.damus.io",
                      "wss://nos.lol", "wss://relay.nostr.net">>]

NoCur == [index |-> 0, awaiting |-> "none", request |-> <<>>, group |-> 0]

CallersIdle ==
    /\ cpc = [c \in Callers |-> "idle"]
    /\ ccall = [c \in Callers |-> NoCall]
    /\ ncalls = 0
    /\ first_ok = [p \in Keys |-> <<>>]
    /\ find_log = [p \in Keys |-> <<>>]
    /\ overlapped = FALSE

\* No operation on the RelayManager yet.
NoRelayOp ==
    [op |-> "none", role |-> "none", urls |-> <<>>, ok |-> TRUE,
     before |-> DefaultConfig, engine_before |-> <<>>, fetched |-> <<>>,
     count |-> 0, reconciled |-> FALSE]

\* No group creation attempted yet.
NoGroupCall ==
    [caller |-> "none", network_fetch |-> FALSE, request |-> <<>>, cache |-> <<>>,
     ok |-> FALSE, count |-> 0]

\* No command has ended yet.
NoCommand ==
    [command |-> "none", file |-> <<>>, quiet |-> FALSE, ok |-> TRUE, truth |-> "ok",
     before |-> <<>>,
     text |-> "", stream |-> "none", printed |-> <<>>, exit_status |-> <<>>,
     engine_messages |-> <<>>, limit |-> 0, messages |-> <<>>]

\* No pointer operation of Storage called yet; `stored` is what the latest
\* successful write or clear left (not known before the first one, or after
\* a failed one).
NoStorageOp ==
    [op |-> "none", ok |-> TRUE, arg |-> <<>>, loaded |-> <<>>, before |-> AbsentFile,
     stored |-> [known |-> FALSE, value |-> <<>>], count |-> 0]

\* The public keys the key store is used with, as hex strings.
StoreKeys == { to_hex(KeyA), to_hex(KeyB) }

\* load_store when the file does not exist: FileKeyStore { version: 1, keys: {} }
\* (readable: the content of the file parses as a FileKeyStore).
AbsentStore ==
    [exists |-> FALSE, readable |-> TRUE, keys |-> [k \in StoreKeys |-> <<>>]]

\* No call of the KeyringHelper yet; held[k] is the private key the latest
\* store_key / remove_key for k that returned Ok left (not known after one
\* that returned an error).
NoKeyOp ==
    [op |-> "none", ok |-> TRUE, pubkey |-> <<>>, privkey |-> <<>>, value |-> <<>>,
     loaded |-> TRUE,
     held |-> [k \in StoreKeys |-> [known |-> TRUE, value |-> <<>>]], count |-> 0]

TraceIdle ==
    /\ glast = NoGroupCall
    /\ clast = NoCommand
    /\ slast = NoStorageOp
    /\ keystore = AbsentStore
    /\ klast = NoKeyOp

HistoryIdle ==
    /\ act = NoAct
    /\ repaired = {}
    /\ rlast = NoRelayOp
    /\ TraceIdle

BatchIdle ==
    /\ ops = <<>>
    /\ idx = 1
    /\ results = <<>>
    /\ dispatched = <<>>
    /\ bpc = "idle"
    /\ cur = NoCur
    /\ inflight = 0
    /\ contacts = {}
    /\ config = DefaultConfig

(***************************************************************************)
(* The batch runner (cli_handler.rs).  A handler returns Ok(output) or     *)
(* Err(error); `truth` records what happened to the operation: "ok", "err" *)
(* or "no_account" (the handler printed an error envelope and returned Ok).*)
(***************************************************************************)
HandlerOk == [ok |-> TRUE, text |-> "success envelope", truth |-> "ok"]
HandlerNoAccount == [ok |-> TRUE, text |-> "Error: No account logged in", truth |-> "no_account"]
HandlerErr(msg) == [ok |-> FALSE, text |-> msg, truth |-> "err"]

\* The end of execute_batch_operation: the JSON entry of a handler result.
\* (index, op, truth: history of the operation the entry was made for; the
\* JSON entry itself holds success and output or error only.)
BatchEntry(i, op, hr) ==
    IF hr.ok
    THEN [index |-> i, op |-> op, success |-> TRUE, output |-> << hr.text >>,
          error |-> <<>>, truth |-> hr.truth]
    ELSE [index |-> i, op |-> op, success |-> FALSE, output |-> <<>>,
          error |-> << hr.text >>, truth |-> hr.truth]

\* results.push(result)
PushResult_Front(res, entry) == << entry >> \o res

PushResult(res, entry) == Append(res, entry)

\* The for loop goes on to the next operation whatever the result was.
NextIndex_BreakOnError(i, n, entry) == IF entry.success THEN i + 1 ELSE n + 1

NextIndex(i, n, entry) == i + 1

\* The loop takes the next operation only when the previous
\* execute_batch_operation(..).await has returned.
CanDispatch_NoAwait == bpc \in {"loop", "await"}

CanDispatch == bpc = "loop"

\* PublicKey::from_hex(s).or_else(|_| PublicKey::parse(s)); no bech32 (npub)
\* string is among the inputs of the model.
ParseKey(s) == from_hex(s)

\* The member list of `group create`: members_str.split(',') parsed one by one
\* (None: an entry did not parse).  An empty list joins to "", which splits
\* into one empty entry.
RECURSIVE ParseKeys(_)
ParseKeys(strs) ==
    IF strs = <<>> THEN << <<>> >>
    ELSE LET k == ParseKey(Trim(Head(strs)))
             rest == ParseKeys(Tail(strs))
         IN IF k = <<>> \/ rest = <<>> THEN <<>> ELSE << k \o rest[1] >>

ParseMembers(members) ==
    IF members = <<>> THEN << <<>> >>
    ELSE IF members[1] = <<>> THEN ParseKeys(<< <<>> >>)
    ELSE ParseKeys(members[1])

\* GroupManager::group_id_from_string / group_id_to_string (hex).
group_id_from_string(str) == from_hex(str)
group_id_to_string(id) == to_hex(id)

\* The create_group request of `group create`.
GroupCreateRequest(account, members, relays) ==
    [creator |-> account.pubkey,
     members |-> members,
     admins |-> << account.pubkey >>,
     relays |-> relays,
     kind |-> "group"]

\* whitenoise.send_message_to_group
EngineSendOk(groups, id, eng_ok) ==
    eng_ok /\ \E i \in 1..Len(groups) : groups[i].id = id

\* ---- the steps of handle_batch_command ----

\* CliHandler::handle_command on the handler's result: Ok(output) is printed
\* to stdout and the process ends with status 0 (main returns Ok); Err(e) is
\* wrapped into an error envelope, formatted, printed to stderr, exit(1).
\* Nothing is printed with --quiet.
handle_command(hr, quiet) ==
    IF hr.ok
    THEN [stream |-> "stdout",
          printed |-> IF quiet THEN <<>> ELSE << hr.text >>,
          exit_status |-> << 0 >>]
    ELSE [stream |-> "stderr",
          printed |-> IF quiet THEN <<>> ELSE << "Error: ", hr.text >>,
          exit_status |-> << 1 >>]

\* The record of a command that ended, with the state it started in.
CommandOutcome(command, hr, quiet, engine_messages, limit, messages) ==
    LET end == handle_command(hr, quiet)
    IN [command |-> command, file |-> <<>>, quiet |-> quiet, ok |-> hr.ok,
        before |-> << current_account, contacts, config, eng_accounts, eng_groups >>,
        truth |-> hr.truth, text |-> hr.text, stream |-> end.stream,
        printed |-> end.printed, exit_status |-> end.exit_status,
        engine_messages |-> engine_messages, limit |-> limit, messages |-> messages]

\* str::ends_with
ends_with(str, suffix) ==
    /\ Len(str) >= Len(suffix)
    /\ SubSeq(str, Len(str) - Len(suffix) + 1, Len(str)) = suffix

JsonSuffix == <<".", "j", "s", "o", "n">>

\* A test that lets every file name through.
IsJsonBatchFile_AnyName(file_path) == TRUE

\* file_path.ends_with(".json")
IsJsonBatchFile(file_path) == ends_with(file_path, JsonSuffix)

\* The file names given to `batch`.
BatchFileNames ==
    { <<"b", ".", "j", "s", "o", "n">>,
      <<"b", ".", "y", "a", "m", "l">>,
      <<"b", ".", "J", "S", "O", "N">>,
      <<"j", "s", "o", "n">> }

\* The head of handle_batch_command: the file is read (`?`), then its name
\* is tested, then a .json file is parsed (`?`).  Ok when the loop is entered.
read_batch(file_path, read_ok, parse_ok) ==
    IF ~read_ok THEN HandlerErr("No such file or directory")
    ELSE IF IsJsonBatchFile(file_path)
         THEN IF parse_ok THEN HandlerOk ELSE HandlerErr("expected value at line 1")
    ELSE HandlerErr("Only JSON batch files are supported currently")

\* The `batch` command as recorded when its file was read.
BatchCommandRecord(file_path, read_ok, hr, quiet) ==
    [CommandOutcome("batch", hr, quiet, <<>>, 0, <<>>)
       EXCEPT !.file = << [path |-> file_path, readable |-> read_ok] >>]


\* The file is read and parsed; the loop starts with an empty results vector.
\* (the command has not ended: no stream, no exit status yet)
BatchStart ==
    /\ bpc = "start"
    /\ \E file_path \in BatchFileNames, quiet \in BOOLEAN :
         LET hr == read_batch(file_path, TRUE, TRUE)
         IN /\ hr.ok
            /\ clast' = [BatchCommandRecord(file_path, TRUE, hr, quiet)
                           EXCEPT !.stream = "none", !.printed = <<>>,
                                  !.exit_status = <<>>]
    /\ bpc' = "loop"
    /\ results' = <<>>
    /\ UNCHANGED <<glast, slast, keystore, klast, historyVars, sessionVars, engineVars, callerVars, ops, idx,
                   dispatched, cur, inflight, contacts, config>>

\* The file cannot be read, is not a .json file or does not parse: the
\* handler returns the error before the loop.
BatchReject ==
    /\ bpc = "start"
    /\ \E file_path \in BatchFileNames, read_ok \in BOOLEAN, parse_ok \in BOOLEAN,
          quiet \in BOOLEAN :
         LET hr == read_batch(file_path, read_ok, parse_ok)
         IN /\ ~hr.ok
            /\ clast' = BatchCommandRecord(file_path, read_ok, hr, quiet)
    /\ bpc' = "rejected"
    /\ UNCHANGED <<glast, slast, keystore, klast, historyVars, sessionVars, engineVars, callerVars, ops, idx,
                   results, dispatched, cur, inflight, contacts, config>>

\* execute_batch_operation is entered for ops[idx].
Begin(command) ==
    /\ CanDispatch
    /\ idx <= Len(ops)
    /\ ops[idx].command = command
    /\ dispatched' = [dispatched EXCEPT ![idx] = @ + 1]

\* execute_batch_operation returns; the entry is pushed; the loop goes on.
Finish(hr) ==
    LET entry == BatchEntry(idx, ops[idx], hr)
    IN /\ results' = PushResult(results, entry)
       /\ idx' = NextIndex(idx, Len(ops), entry)
       /\ bpc' = "loop"
       /\ cur' = NoCur

\* The handler issues a mutating engine call and awaits it.
Await(call, request, group) ==
    /\ bpc' = "await"
    /\ cur' = [index |-> idx, awaiting |-> call, request |-> request, group |-> group]
    /\ inflight' = inflight + 1
    /\ UNCHANGED <<results, idx>>

\* AccountCreate -> handle_account_command(Create): create_identity,
\* setup_default_relays, update_metadata when a name or about is given.
\* The engine generates a key it holds no account for; within the key
\* universe of the model the creation fails when the chosen key is taken.
DoAccountCreate ==
    /\ Begin("AccountCreate")
    /\ \E eng_ok \in BOOLEAN, new_relays \in RelayListChoices, meta_ok \in BOOLEAN,
          key \in Keys :
         IF ~eng_ok \/ eng_accounts[key] # <<>>
         THEN /\ Finish(HandlerErr("Failed to create identity"))
              /\ UNCHANGED <<current_account, eng_accounts, config, act>>
         ELSE LET account == Account(key, new_relays)
              IN /\ current_account' = << account >>
                 /\ eng_accounts' = [eng_accounts EXCEPT ![key] = << account >>]
                 /\ config' = setup_default_relays(config)
                 /\ act' = Activation("create", << account >>, FALSE, TRUE, FALSE, TRUE)
                 /\ IF ops[idx].named /\ ~meta_ok
                    THEN Finish(HandlerErr("Failed to update metadata"))
                    ELSE Finish(HandlerOk)
    /\ UNCHANGED <<traceVars, repaired, rlast, proc, pointer_file, last, eng_groups, last_request, created_for,
                   callerVars, ops, inflight, contacts>>

\* ContactAdd -> handle_contact_command(Add): ContactManager::add, save_contacts,
\* and the engine's add_contact, whose result is ignored.
DoContactAdd ==
    /\ Begin("ContactAdd")
    /\ \E meta_ok \in BOOLEAN, io_ok \in BOOLEAN :
         LET key == ParseKey(ops[idx].pubkey)
         IN IF key = <<>>
            THEN /\ Finish(HandlerErr("Invalid hex format"))
                 /\ UNCHANGED contacts
            ELSE IF ~meta_ok
            THEN /\ Finish(HandlerErr("Failed to fetch metadata"))
                 /\ UNCHANGED contacts
            ELSE /\ contacts' = contacts \cup {key[1]}
                 /\ IF io_ok THEN Finish(HandlerOk)
                             ELSE Finish(HandlerErr("save_contacts failed"))
    /\ UNCHANGED <<traceVars, historyVars, sessionVars, engineVars, callerVars, ops, inflight, config>>

\* GroupCreate -> handle_group_command(Create) up to the create_group call.
DoGroupCreate ==
    /\ Begin("GroupCreate")
    /\ \E net_relays \in {<<>>, << EngineDefaultRelays >>} :
         IF current_account = <<>>
         THEN /\ Finish(HandlerNoAccount)
              /\ UNCHANGED <<inflight, last_request>>
         ELSE LET members == ParseMembers(ops[idx].members)
                  relays == GroupRelays(current_account[1], net_relays)
              IN IF members = <<>>
                 THEN /\ Finish(HandlerErr("invalid member key"))
                      /\ UNCHANGED <<inflight, last_request>>
                 ELSE IF relays = <<>>
                 THEN /\ Finish(HandlerErr("Failed to fetch relays"))
                      /\ UNCHANGED <<inflight, last_request>>
                 ELSE LET req == GroupCreateRequest(current_account[1], members[1],
                                                    relays[1])
                      IN /\ Await("create_group", << req >>, 0)
                         /\ last_request' = << req >>
    /\ UNCHANGED <<traceVars, historyVars, sessionVars, eng_accounts, eng_groups, created_for, callerVars,
                   ops, contacts, config>>

\* MessageSend -> handle_message_command(Send) up to the send call.
DoMessageSend ==
    /\ Begin("MessageSend")
    /\ IF current_account = <<>>
       THEN /\ Finish(HandlerNoAccount)
            /\ UNCHANGED inflight
       ELSE LET id == group_id_from_string(ops[idx].group_id)
            IN IF id = <<>>
               THEN /\ Finish(HandlerErr("Failed to decode group ID"))
                    /\ UNCHANGED inflight
               ELSE Await("send_message", <<>>, id[1])
    /\ UNCHANGED <<traceVars, historyVars, sessionVars, engineVars, callerVars, ops, contacts, config>>

\* MessageDm -> handle_message_command(Dm) up to the first mutating call:
\* the lookup of get_or_create_dm_group, then its create_group or, when a
\* group was found, the send.
DoMessageDm ==
    /\ Begin("MessageDm")
    /\ \E fail_at \in LookupFailures(eng_groups),
          net_relays \in {<<>>, << EngineDefaultRelays >>} :
         IF current_account = <<>>
         THEN /\ Finish(HandlerNoAccount)
              /\ UNCHANGED <<inflight, last_request>>
         ELSE LET key == ParseKey(ops[idx].recipient)
              IN IF key = <<>>
                 THEN /\ Finish(HandlerErr("invalid recipient key"))
                      /\ UNCHANGED <<inflight, last_request>>
                 ELSE LET r == find_dm_group(eng_groups, current_account[1], key[1],
                                             fail_at)
                          relays == GroupRelays(current_account[1], net_relays)
                      IN IF ~r.ok
                         THEN /\ Finish(HandlerErr("Failed to fetch groups"))
                              /\ UNCHANGED <<inflight, last_request>>
                         ELSE IF ~NeedsCreate(r.found)
                         THEN /\ Await("send_message", <<>>, r.found[1])
                              /\ UNCHANGED last_request
                         ELSE IF relays = <<>>
                         THEN /\ Finish(HandlerErr("Failed to fetch relays"))
                              /\ UNCHANGED <<inflight, last_request>>
                         ELSE LET req == DmCreateRequest(current_account[1], key[1],
                                                         relays[1])
                              IN /\ Await("create_dm_group", << req >>, 0)
                                 /\ last_request' = << req >>
    /\ UNCHANGED <<traceVars, historyVars, sessionVars, eng_accounts, eng_groups, created_for, callerVars,
                   ops, contacts, config>>

\* RelayAdd -> handle_relay_command(Add): parse_relay_type, add_relay_to_type.
DoRelayAdd ==
    /\ Begin("RelayAdd")
    /\ IF current_account = <<>>
       THEN /\ Finish(HandlerNoAccount)
            /\ UNCHANGED config
       ELSE LET rt == parse_relay_type(ops[idx].relay_type)
            IN IF rt = <<>>
               THEN /\ Finish(HandlerErr("Invalid relay type"))
                    /\ UNCHANGED config
               ELSE LET added == add_relay_to_type(config, rt[1], ops[idx].url)
                    IN /\ config' = added.config
                       /\ IF added.ok
                          THEN Finish(HandlerOk)
                          ELSE Finish(HandlerErr("Invalid relay URL or connection failed"))
    /\ UNCHANGED <<traceVars, historyVars, sessionVars, engineVars, callerVars, ops, inflight, contacts>>

\* The awaited engine call returns and the handler runs on: to its end, or,
\* for a DM whose group was just created, to the send.
EngineReturns ==
    /\ bpc = "await"
    /\ \E eng_ok \in BOOLEAN :
         CASE cur.awaiting = "send_message" ->
                /\ inflight' = inflight - 1
                /\ IF EngineSendOk(eng_groups, cur.group, eng_ok)
                   THEN Finish(HandlerOk)
                   ELSE Finish(HandlerErr("Failed to send message"))
                /\ UNCHANGED <<eng_groups, created_for>>
           [] cur.awaiting = "create_group" ->
                LET req == cur.request[1]
                    made == EngineCreateGroup(eng_groups, req.creator, req.members,
                                              req.admins, eng_ok)
                IN /\ inflight' = inflight - 1
                   /\ UNCHANGED created_for
                   /\ IF made = <<>>
                      THEN /\ Finish(HandlerErr("Failed to create group"))
                           /\ UNCHANGED eng_groups
                      ELSE /\ Finish(HandlerOk)
                           /\ eng_groups' = Append(eng_groups, made[1])
           [] OTHER ->
                LET req == cur.request[1]
                    made == EngineCreateGroup(eng_groups, req.creator, req.members,
                                              req.admins, eng_ok)
                IN IF made = <<>>
                   THEN /\ inflight' = inflight - 1
                        /\ Finish(HandlerErr("Failed to create DM group"))
                        /\ UNCHANGED <<eng_groups, created_for>>
                   ELSE \* create_group returned; send_message_to_group is issued
                        /\ inflight' = (inflight - 1) + 1
                        /\ eng_groups' = Append(eng_groups, made[1])
                        /\ created_for' =
                             [created_for EXCEPT ![req.members[1]] = @ \cup {made[1].id}]
                        /\ bpc' = "await"
                        /\ cur' = [cur EXCEPT !.awaiting = "send_message",
                                              !.request = <<>>,
                                              !.group = made[1].id]
                        /\ UNCHANGED <<results, idx>>
    /\ UNCHANGED <<traceVars, historyVars, sessionVars, eng_accounts, last_request, callerVars, ops,
                   dispatched, contacts, config>>

\* The loop is over: the results are wrapped into the command's output.
BatchFinish ==
    /\ bpc = "loop"
    /\ idx > Len(ops)
    /\ bpc' = "done"
    /\ LET end == handle_command(HandlerOk, clast.quiet)
       IN clast' = [clast EXCEPT !.stream = end.stream, !.printed = end.printed,
                                 !.exit_status = end.exit_status]
    /\ UNCHANGED <<glast, slast, keystore, klast, historyVars, sessionVars, engineVars, callerVars, ops, idx, results, dispatched,
                   cur, inflight, contacts, config>>

\* The operations a batch file of the model is made of.
BatchCommands ==
    { [command |-> "AccountCreate", named |-> TRUE],
      [command |-> "GroupCreate", members |-> << <<>> >>],
      [command |-> "ContactAdd", pubkey |-> to_hex(KeyB)],
      [command |-> "ContactAdd", pubkey |-> <<"z", "z">>],
      [command |-> "GroupCreate", members |-> <<>>],
      [command |-> "GroupCreate", members |-> << << to_hex(KeyB), to_hex(KeyC) >> >>],
      [command |-> "MessageSend", group_id |-> group_id_to_string(1)],
      [command |-> "MessageDm", recipient |-> to_hex(KeyB)],
      [command |-> "RelayAdd", url |-> "wss://new.example", relay_type |-> "nostr"],
      [command |-> "RelayAdd", url |-> "http://example.com", relay_type |-> "Inbox"] }

BatchFiles == UNION { [1..n -> BatchCommands] : n \in 0..MaxOps }

BatchInit ==
    /\ proc = "up"
    /\ \E relays \in RelayListChoices :
         current_account \in {<<>>, << Account(KeyA, relays) >>}
    /\ pointer_file = AbsentFile
    /\ last = NoLast
    /\ eng_accounts = [k \in Keys |-> IF k = KeyA /\ current_account # <<>>
                                      THEN current_account
                                      ELSE <<>>]
    /\ eng_groups = <<>>
    /\ last_request = <<>>
    /\ created_for = [p \in Keys |-> {}]
    /\ CallersIdle
    /\ ops \in BatchFiles
    /\ idx = 1
    /\ results = <<>>
    /\ dispatched = [i \in 1..Len(ops) |-> 0]
    /\ bpc = "start"
    /\ cur = NoCur
    /\ inflight = 0
    /\ contacts = {}
    /\ config = DefaultConfig
    /\ HistoryIdle

BatchNext ==
    \/ BatchStart
    \/ BatchReject
    \/ DoAccountCreate
    \/ DoContactAdd
    \/ DoGroupCreate
    \/ DoMessageSend
    \/ DoMessageDm
    \/ DoRelayAdd
    \/ EngineReturns
    \/ BatchFinish

BatchSpec == BatchInit /\ [][BatchNext]_vars

(***************************************************************************)
(* SessionSpec: process starts, logins, logouts and exits.                 *)
(***************************************************************************)
\* Pointer files a process can find at start: none, the hex of a key, the hex
\* with surrounding whitespace, upper-case hex, and text that is no key.
PointerInits ==
    { AbsentFile,
      [exists |-> TRUE, content |-> to_hex(KeyA)],
      [exists |-> TRUE, content |-> to_hex(KeyC)],
      [exists |-> TRUE, content |-> <<" ">> \o to_hex(KeyB) \o <<"\n">>],
      [exists |-> TRUE, content |-> <<"A", "A">>],
      [exists |-> TRUE, content |-> <<"z", "z">>] }

\* The engine's database at start: KeyA is known (with or without relays),
\* KeyB may be known, KeyC is not.
EngineAccountInits ==
    { [k \in Keys |-> CASE k = KeyA -> << Account(KeyA, ra) >>
                        [] k = KeyB -> b
                        [] OTHER -> <<>>] :
        ra \in RelayListChoices, b \in {<<>>, << Account(KeyB, EngineDefaultRelays) >>} }

SessionInit ==
    /\ proc = "down"
    /\ current_account = <<>>
    /\ pointer_file \in PointerInits
    /\ last = NoLast
    /\ eng_accounts \in EngineAccountInits
    /\ eng_groups = <<>>
    /\ last_request = <<>>
    /\ created_for = [p \in Keys |-> {}]
    /\ CallersIdle
    /\ BatchIdle
    /\ HistoryIdle

SessionNext ==
    \/ Startup
    \/ Login
    \/ Logout
    \/ Exit

SessionSpec == SessionInit /\ [][SessionNext]_vars

(***************************************************************************)
(* RelaySpec: the operations of the RelayManager, for an active account    *)
(* the engine holds.  Whitenoise::get_instance() succeeds: the engine is   *)
(* initialised before the App is constructed.                              *)
(***************************************************************************)
RelayTypes == {"Nostr", "Inbox", "KeyPackage"}

\* The urls given to add and remove, and the lists given to update_relays.
RelayUrlInputs ==
    {"wss://new.example", "wss://relay.purplepag.es", "wss://nos.lol",
     "http://example.com", "not a url"}

RelayListInputs ==
    { <<>>,
      <<"wss://new.example">>,
      <<"wss://new.example", "wss://new.example">>,
      <<"wss://purplepag.es", "wss://new.example", "wss://relay.purplepag.es">>,
      <<"wss://new.example", "http://example.com">>,
      <<"not a url", "wss://nos.lol">> }

\* The relay lists the engine holds for the active account.
EngineRelayInits ==
    { AccountWith(KeyA, <<>>, <<>>, <<>>),
      AccountWith(KeyA, <<"wss://relay.damus.io">>, <<>>, <<"wss://nos.lol">>),
      AccountWith(KeyA, <<"wss://relay.primal.net", "wss://relay.damus.io">>,
                  <<"wss://relay.damus.io">>, <<"wss://purplepag.es">>) }

RelayOp(op, role, urls, ok, fetched, reconciled) ==
    [op |-> op, role |-> role, urls |-> urls, ok |-> ok, before |-> config,
     engine_before |-> eng_accounts[current_account[1].pubkey],
     fetched |-> fetched, count |-> rlast.count + 1,
     reconciled |-> rlast.reconciled \/ reconciled]

CanRelayOp ==
    /\ proc = "up"
    /\ current_account # <<>>
    /\ rlast.count < MaxRelayOps

RelayFrame ==
    UNCHANGED <<traceVars, sessionVars, engineVars, callerVars, ops, idx, results, dispatched,
                bpc, cur, inflight, contacts, act, repaired>>

\* `relay list`: RelayManager::fetch_relays for one role.
RelayFetch ==
    /\ CanRelayOp
    /\ \E role \in RelayTypes, eng_ok \in BOOLEAN :
         LET r == fetch_relays(eng_accounts, config, current_account[1].pubkey,
                               role, eng_ok)
         IN rlast' = RelayOp("fetch", role, <<>>, r.ok, r.relays, FALSE)
    /\ UNCHANGED config
    /\ RelayFrame

\* RelayManager::update_relays with a list of the caller's.
RelayReconcile ==
    /\ CanRelayOp
    /\ \E role \in RelayTypes, urls \in RelayListInputs :
         LET r == update_relays(config, role, urls)
         IN /\ config' = r.config
            /\ rlast' = RelayOp("reconcile", role, urls, r.ok, <<>>, TRUE)
    /\ RelayFrame

\* `relay add`: RelayManager::add_relay_to_type.
RelayAdd ==
    /\ CanRelayOp
    /\ \E role \in RelayTypes, url \in RelayUrlInputs :
         LET r == add_relay_to_type(config, role, url)
         IN /\ config' = r.config
            /\ rlast' = RelayOp("add", role, << url >>, r.ok, <<>>, FALSE)
    /\ RelayFrame

\* `relay remove`: RelayManager::remove_relay_from_type.
RelayRemove ==
    /\ CanRelayOp
    /\ \E role \in RelayTypes, url \in RelayUrlInputs :
         LET r == remove_relay_from_type(config, role, url)
         IN /\ config' = r.config
            /\ rlast' = RelayOp("remove", role, << url >>, r.ok, <<>>, FALSE)
    /\ RelayFrame

\* RelayManager::cleanup_unwanted_relays (it returns Ok(())).
RelayCleanup ==
    /\ CanRelayOp
    /\ config' = cleanup_unwanted_relays(config)
    /\ rlast' = RelayOp("cleanup", "none", <<>>, TRUE, <<>>, FALSE)
    /\ RelayFrame

\* The default-relay setup run on account creation (it returns Ok(())).
RelaySetupDefaults ==
    /\ CanRelayOp
    /\ config' = setup_default_relays(config)
    /\ rlast' = RelayOp("setup", "none", <<>>, TRUE, <<>>, FALSE)
    /\ RelayFrame

RelayInit ==
    /\ proc = "up"
    /\ \E account \in EngineRelayInits :
         /\ current_account = << account >>
         /\ eng_accounts = [k \in Keys |-> IF k = KeyA THEN << account >> ELSE <<>>]
    /\ pointer_file = AbsentFile
    /\ last = NoLast
    /\ eng_groups = <<>>
    /\ last_request = <<>>
    /\ created_for = [p \in Keys |-> {}]
    /\ CallersIdle
    /\ BatchIdle
    /\ HistoryIdle

RelayNext ==
    \/ RelayFetch
    \/ RelayReconcile
    \/ RelayAdd
    \/ RelayRemove
    \/ RelayCleanup
    \/ RelaySetupDefaults

RelaySpec == RelayInit /\ [][RelayNext]_vars

(***************************************************************************)
(* ActivationSpec: every path that makes an account active: the resume of  *)
(* a process start, the selection by --account that follows it, login and  *)
(* identity creation.                                                      *)
(***************************************************************************)
ActivationPointerInits ==
    { AbsentFile,
      [exists |-> TRUE, content |-> to_hex(KeyA)],
      [exists |-> TRUE, content |-> <<"z", "z">>] }

ActivationInit ==
    /\ proc = "down"
    /\ current_account = <<>>
    /\ pointer_file \in ActivationPointerInits
    /\ last = NoLast
    /\ eng_accounts \in EngineAccountInits
    /\ eng_groups = <<>>
    /\ last_request = <<>>
    /\ created_for = [p \in Keys |-> {}]
    /\ CallersIdle
    /\ BatchIdle
    /\ HistoryIdle

ActivationNext ==
    \/ Startup
    \/ SelectAccount
    \/ Login
    \/ CreateIdentity
    \/ Exit

ActivationSpec == ActivationInit /\ [][ActivationNext]_vars

\* The pointer as the next process start reads it.
PersistedPointer == load_current_account_pubkey(pointer_file, TRUE).value

(***************************************************************************)
(* C8: after a login that returns success, the account the engine returned *)
(* is the active account and the persisted pointer is that account's       *)
(* public-key hex; a login whose credential the engine rejects returns an  *)
(* error and changes neither the active account nor the persisted pointer. *)
(***************************************************************************)
C8_LoginSetsActiveAndPointer ==
    last.op = "login" =>
      /\ last.ok =>
           /\ last.engine_returned # <<>>
           /\ current_account # <<>>
           /\ current_account[1].pubkey = last.engine_returned[1].pubkey
           /\ PersistedPointer = << to_hex(last.engine_returned[1].pubkey) >>
      /\ last.rejected =>
           /\ ~last.ok
           /\ current_account = last.before_account
           /\ pointer_file = last.before_pointer

\* A successful login that replaced another active account and another pointer.
C8_Witness ==
    /\ last.op = "login"
    /\ last.ok
    /\ last.before_account # <<>>
    /\ last.before_account[1].pubkey # current_account[1].pubkey
    /\ last.before_pointer.exists
    /\ last.before_pointer # pointer_file

(***************************************************************************)
(* C9: a logout that returns success with an account active has notified   *)
(* the engine once, leaves no account active and the persisted pointer     *)
(* reading none; a logout with no account active issues no engine call and *)
(* changes neither the active account nor the persisted pointer.           *)
(***************************************************************************)
C9_LogoutClearsActiveAndPointer ==
    last.op = "logout" =>
      /\ (last.ok /\ last.before_account # <<>>) =>
           /\ last.engine_logouts = 1
           /\ current_account = <<>>
           /\ PersistedPointer = <<>>
      /\ last.before_account = <<>> =>
           /\ last.ok
           /\ last.engine_logouts = 0
           /\ current_account = last.before_account
           /\ pointer_file = last.before_pointer

\* A successful logout of an active account whose pointer was persisted.
C9_Witness ==
    /\ last.op = "logout"
    /\ last.ok
    /\ last.before_account # <<>>
    /\ last.before_pointer.exists
    /\ last.before_pointer.content = to_hex(last.before_account[1].pubkey)

(***************************************************************************)
(* C10: resume at startup never fails the startup: when the persisted      *)
(* pointer is present, session construction succeeds, and the account is   *)
(* active after resume exactly when the engine returned it for the pointer.*)
(***************************************************************************)
C10_ResumeNeverFailsStartup ==
    (last.op = "startup" /\ last.pointer_present) =>
      /\ last.ok
      /\ proc = "up"
      /\ (current_account # <<>>) = (last.engine_returned # <<>>)
      /\ current_account # <<>> =>
           current_account[1].pubkey = last.engine_returned[1].pubkey

(***************************************************************************)
(* DmSpec: two callers of find_dm_group / get_or_create_dm_group for the   *)
(* active account.  get_or_create_dm_group awaits the lookup and then the  *)
(* creation: another caller can run between the two.                       *)
(***************************************************************************)
CallKinds == {"get_or_create", "find"}

\* The lookup of a call: find_dm_group, and for get_or_create_dm_group the
\* early return when a group was found.
DmLookup(c) ==
    /\ cpc[c] \in {"idle", "done"}
    \* the callers are interchangeable: the second one is used only for a call
    \* that starts while the first one is between its lookup and its creation
    /\ c = 2 => cpc[1] = "looked"
    /\ ncalls < MaxCalls
    /\ current_account # <<>>
    /\ \E kind \in CallKinds, peer \in Keys, fail_at \in LookupFailures(eng_groups) :
         LET r == find_dm_group(eng_groups, current_account[1], peer, fail_at)
             goes_on == r.ok /\ kind = "get_or_create" /\ NeedsCreate(r.found)
             returns_id == r.ok /\ ~goes_on /\ r.found # <<>>
             call == [kind |-> kind, peer |-> peer,
                      started_after |-> first_ok[peer], prev |-> find_log[peer],
                      ngroups |-> Len(eng_groups),
                      engine_failed |-> fail_at # 0, lookup_ok |-> r.ok,
                      found |-> r.found, requested |-> FALSE,
                      ok |-> r.ok /\ ~goes_on,
                      id |-> IF returns_id THEN r.found[1] ELSE 0]
         IN /\ ccall' = [ccall EXCEPT ![c] = call]
            /\ cpc' = [cpc EXCEPT ![c] = IF goes_on THEN "looked" ELSE "done"]
            /\ find_log' = IF r.ok
                           THEN [find_log EXCEPT ![peer] = << r.found >>]
                           ELSE find_log
            /\ first_ok' = IF returns_id /\ kind = "get_or_create" /\ first_ok[peer] = <<>>
                           THEN [first_ok EXCEPT ![peer] = r.found]
                           ELSE first_ok
    /\ ncalls' = ncalls + 1
    /\ overlapped' = (overlapped \/ \E d \in Callers \ {c} : cpc[d] = "looked")
    /\ UNCHANGED <<traceVars, historyVars, sessionVars, engineVars, batchVars>>

\* The creation of get_or_create_dm_group: relay selection, then create_group.
DmCreate(c) ==
    /\ cpc[c] = "looked"
    /\ \E net_relays \in {<<>>, << EngineDefaultRelays >>}, eng_ok \in BOOLEAN :
         LET account == current_account[1]
             peer == ccall[c].peer
             relays == GroupRelays(account, net_relays)
         IN IF relays = <<>>
            THEN \* fetch_relays_from failed: `?` returns the error
                 /\ ccall' = [ccall EXCEPT ![c].ok = FALSE]
                 /\ UNCHANGED <<eng_groups, last_request, created_for, first_ok, find_log>>
            ELSE LET req == DmCreateRequest(account, peer, relays[1])
                     made == EngineCreateGroup(eng_groups, req.creator, req.members,
                                               req.admins, eng_ok)
                 IN /\ last_request' = << req >>
                    /\ IF made = <<>>
                       THEN /\ ccall' = [ccall EXCEPT ![c].requested = TRUE,
                                                      ![c].ok = FALSE]
                            /\ UNCHANGED <<eng_groups, created_for, first_ok, find_log>>
                       ELSE /\ eng_groups' = Append(eng_groups, made[1])
                            /\ created_for' = [created_for EXCEPT ![peer] = @ \cup {made[1].id}]
                            /\ find_log' = [p \in Keys |-> <<>>]
                            /\ ccall' = [ccall EXCEPT ![c].requested = TRUE,
                                                      ![c].ok = TRUE,
                                                      ![c].id = made[1].id]
                            /\ first_ok' = IF first_ok[peer] = <<>>
                                           THEN [first_ok EXCEPT ![peer] = << made[1].id >>]
                                           ELSE first_ok
    /\ cpc' = [cpc EXCEPT ![c] = "done"]
    /\ UNCHANGED <<traceVars, historyVars, sessionVars, eng_accounts, ncalls, overlapped, batchVars>>

\* The shapes of the groups the engine holds at the start.
InitGroupShapes ==
    { [group_type |-> "DirectMessage", members |-> m] :
        m \in { {KeyA, KeyB}, {KeyA, KeyC}, {KeyB, KeyC}, {KeyA}, {KeyA, KeyB, KeyC} } }
    \cup { [group_type |-> "Group", members |-> {KeyA, KeyB}] }

InitGroupLists ==
    UNION { { [i \in 1..n |-> Group(i, q[i].group_type, q[i].members)] :
                q \in [1..n -> InitGroupShapes] } : n \in 0..MaxInitGroups }

DmInit ==
    /\ proc = "up"
    /\ \E relays \in RelayListChoices : current_account = << Account(KeyA, relays) >>
    /\ pointer_file = AbsentFile
    /\ last = NoLast
    /\ eng_accounts = [k \in Keys |-> IF k = KeyA THEN current_account ELSE <<>>]
    /\ eng_groups \in InitGroupLists
    /\ last_request = <<>>
    /\ created_for = [p \in Keys |-> {}]
    /\ CallersIdle
    /\ BatchIdle
    /\ HistoryIdle

DmNext ==
    \/ \E c \in Callers : DmLookup(c)
    \/ \E c \in Callers : DmCreate(c)

DmSpec == DmInit /\ [][DmNext]_vars

\* The groups of a list that are a DM group of the pair: discriminant
\* DirectMessage, exactly two members, both account and peer among them.
MatchingPositions(groups, account, peer) ==
    { i \in 1..Len(groups) :
        /\ groups[i].group_type = "DirectMessage"
        /\ Cardinality(groups[i].members) = 2
        /\ {account, peer} \subseteq groups[i].members }

\* The first of them in the engine's order, if any.
FirstMatch(groups, account, peer) ==
    LET at == MatchingPositions(groups, account, peer)
    IN IF at = {} THEN <<>>
       ELSE << groups[CHOOSE i \in at : \A j \in at : i <= j].id >>

ActiveKey == current_account[1].pubkey

(***************************************************************************)
(* C5: get_or_create_dm_group is idempotent under sequential calls: when a *)
(* first call for (account, peer) succeeded, a later call for the same     *)
(* pair sends no create_group request to the engine and, when it returns a *)
(* group id (the engine answered its lookup), returns the id of the first. *)
(***************************************************************************)
C5_GetOrCreateIdempotent ==
    \A c \in Callers :
      ( /\ cpc[c] = "done"
        /\ ccall[c].kind = "get_or_create"
        /\ ~overlapped
        /\ ccall[c].started_after # <<>> ) =>
          /\ ~ccall[c].requested
          /\ ccall[c].ok => ccall[c].id = ccall[c].started_after[1]
          /\ ~ccall[c].engine_failed => ccall[c].ok

\* A second sequential call returned the group the first call had created.
C5_Witness ==
    \E c \in Callers :
      /\ cpc[c] = "done"
      /\ ccall[c].kind = "get_or_create"
      /\ ~overlapped
      /\ ccall[c].started_after # <<>>
      /\ ccall[c].ok
      /\ ccall[c].id \in created_for[ccall[c].peer]

C7_SequentialCreatesAtMostOne ==
    ~overlapped => \A peer \in Keys : Cardinality(created_for[peer]) <= 1

\* Two callers, both lookups before either creation: two groups for one pair.
C7_Witness ==
    /\ overlapped
    /\ \A c \in Callers :
         /\ cpc[c] = "done"
         /\ ccall[c].kind = "get_or_create"
         /\ ccall[c].found = <<>>
         /\ ccall[c].ok
         /\ ccall[c].requested
    /\ ccall[1].peer = ccall[2].peer
    /\ ccall[1].id # ccall[2].id
    /\ created_for[ccall[1].peer] = {ccall[1].id, ccall[2].id}
    /\ FirstMatch(eng_groups, ActiveKey, ccall[1].peer) # <<>>

(***************************************************************************)
(* Claims about the batch runner (BatchSpec).                              *)
(***************************************************************************)

\* C1: a batch of N operations returns exactly N result entries, and the
\* i-th entry is the outcome of the i-th input operation, whatever mix of
\* successes and failures the operations had.
C1_BatchReturnsNResultsInOrder ==
    /\ Len(results) <= Len(ops)
    /\ \A i \in 1..Len(results) : results[i].index = i /\ results[i].op = ops[i]
    /\ bpc = "done" => Len(results) = Len(ops)

\* A finished batch of two operations whose first failed and second succeeded.
C1_Witness ==
    /\ bpc = "done"
    /\ Len(ops) = 2
    /\ Len(results) = 2
    /\ ~results[1].success
    /\ results[2].success

\* C2: every operation of the input list is dispatched exactly once: never
\* skipped because an earlier operation failed, never dispatched again
\* after it failed.
C2_EachOperationDispatchedOnce ==
    /\ \A i \in 1..Len(ops) : dispatched[i] <= 1
    /\ \A i \in 1..Len(ops) : i < idx => dispatched[i] = 1
    /\ bpc = "done" => \A i \in 1..Len(ops) : dispatched[i] = 1

\* A finished batch whose first operation failed and whose second was
\* dispatched all the same.
C2_Witness ==
    /\ bpc = "done"
    /\ Len(ops) = 2
    /\ results[1].truth = "err"
    /\ dispatched = [i \in 1..2 |-> 1]

\* C3: the success flag of an entry is true exactly when the operation
\* succeeded; a failed operation, including one refused because no account
\* is active, yields success = false and an error message.
C3_SuccessFlagIffOperationSucceeded ==
    \A i \in 1..Len(results) :
        /\ results[i].success <=> results[i].truth = "ok"
        /\ results[i].truth # "ok" => ~results[i].success /\ results[i].error # <<>>

\* C4: operations run strictly one at a time in input order: an operation
\* starts only after its predecessor completed, so at most one mutating
\* engine call (create group, send message) is in flight.
C4_StrictlySequential ==
    /\ inflight <= 1
    /\ \A i \in 1..Len(ops) : dispatched[i] > 0 => Len(results) >= i - 1
    /\ bpc = "await" => inflight = 1 /\ cur.index = idx /\ Len(results) = idx - 1

\* The second operation's engine call is in flight after the first
\* operation, which made an engine call of its own, completed.
C4_Witness ==
    /\ bpc = "await"
    /\ inflight = 1
    /\ cur.index = 2
    /\ Len(results) = 1
    /\ results[1].op.command \in {"GroupCreate", "MessageDm", "MessageSend"}
    /\ results[1].truth = "ok"

(***************************************************************************)
(* Claims about the activation of accounts (ActivationSpec).               *)
(***************************************************************************)
RelayListsEmpty(account) ==
    /\ account.nip65_relays = <<>>
    /\ account.inbox_relays = <<>>
    /\ account.key_package_relays = <<>>

\* C11: a failure of the engine's relay repair never fails the surrounding
\* call: when the engine accepted the credential (login) or returned the
\* account (resume, selection by --account) and the repair failed, the
\* account is active and the call succeeded (a login can still fail on
\* its later pointer write, never on the repair).
C11_RepairFailureNeverFailsCall ==
    act.repair_failed =>
      /\ current_account # <<>>
      /\ current_account[1].pubkey = act.returned[1].pubkey
      /\ ~act.other_failure => act.ok
      /\ act.path \in {"resume", "select"} => act.ok

\* A login whose repair failed: it succeeded and the account is active with
\* its relay lists still empty.
C11_Witness ==
    /\ act.path = "login"
    /\ act.repair_failed
    /\ act.ok
    /\ last.op = "login"
    /\ last.ok
    /\ current_account # <<>>
    /\ RelayListsEmpty(current_account[1])

\* C12: the engine's repair is invoked for an account only if the relay
\* lists the engine returned for it are empty, and at most once for that
\* account per process start, also when both the resume and the selection
\* by --account run.
C12_RepairOnlyWhenEmptyAndOnce ==
    act.repair_called =>
      /\ RelayListsEmpty(act.returned[1])
      /\ ~act.repeated

\* C13: an active account whose relay lists were empty as the engine
\* returned them has had a repair attempted when it became active, on every
\* path: resume, login, identity creation, selection by --account.
C13_EmptyAccountRepairedBeforeUse ==
    ( /\ current_account # <<>>
      /\ act.returned # <<>>
      /\ RelayListsEmpty(act.returned[1]) ) => act.repair_called

\* C14: at most one account is active, and making an account B active by
\* login, identity creation or selection while an account A is active
\* replaces A by B without an engine logout of A.
C14_ActivationReplacesWithoutLogout ==
    /\ Len(current_account) <= 1
    /\ ( /\ last.op \in {"login", "create", "select"}
         /\ last.engine_returned # <<>>
         /\ last.before_account # <<>> ) =>
           /\ current_account # <<>>
           /\ current_account[1].pubkey = last.engine_returned[1].pubkey
           /\ last.engine_logouts = 0
           /\ eng_accounts[last.before_account[1].pubkey] # <<>>

\* A selection by --account that replaced the account the resume had made
\* active.
C14_Witness ==
    /\ last.op = "select"
    /\ last.ok
    /\ last.before_account # <<>>
    /\ current_account # <<>>
    /\ last.before_account[1].pubkey # current_account[1].pubkey
    /\ eng_accounts[last.before_account[1].pubkey] # <<>>

(***************************************************************************)
(* Claims about the relay cache (RelaySpec).                               *)
(***************************************************************************)
\* The urls of the model that are valid ws:// or wss:// urls.
WsUrls ==
    {"ws://localhost:10547", "wss://relay.damus.io", "wss://relay.primal.net",
     "wss://nos.lol", "wss://relay.nostr.net", "wss://purplepag.es",
     "wss://relay.purplepag.es", "wss://new.example"}

DenyListed == {"wss://purplepag.es", "wss://relay.purplepag.es"}

Occurrences(list, x) == Cardinality({ i \in 1..Len(list) : list[i] = x })

NoDuplicates(list) ==
    \A i \in 1..Len(list), j \in 1..Len(list) : list[i] = list[j] => i = j

OtherRolesUnchanged(role) ==
    \A t \in RelayTypes \ {role} : config[t] = rlast.before[t]

\* C15: fetch(account, role) returns the engine's record for the role,
\* whatever the local cache holds, and no relay-cache operation changes the
\* engine's record.
C15_FetchReadsEngineRecord ==
    rlast.op # "none" =>
      /\ eng_accounts[ActiveKey] = rlast.engine_before
      /\ (rlast.op = "fetch" /\ rlast.ok) =>
           rlast.fetched = RoleRelays(rlast.engine_before[1], rlast.role)

\* A fetch made after the cache of the role was changed returned the
\* engine's list, which differs from the cached one.
C15_Witness ==
    /\ rlast.op = "fetch"
    /\ rlast.ok
    /\ rlast.count = 2
    /\ config[rlast.role] # DefaultConfig[rlast.role]
    /\ rlast.fetched # config[rlast.role]
    /\ rlast.fetched # <<>>

\* C16: reconcile(account, role, urls) is all-or-nothing: with an entry that
\* is not a valid ws:// or wss:// url it fails and the cache of all three
\* roles is unchanged; with valid entries only, the cache of the role becomes
\* exactly urls and the other two roles are unchanged.
C16_ReconcileAllOrNothing ==
    rlast.op = "reconcile" =>
      IF \A i \in 1..Len(rlast.urls) : rlast.urls[i] \in WsUrls
      THEN /\ rlast.ok
           /\ config[rlast.role] = rlast.urls
           /\ OtherRolesUnchanged(rlast.role)
      ELSE /\ ~rlast.ok
           /\ config = rlast.before

\* A reconcile with one valid and one invalid entry failed after the cache
\* had been changed by an earlier operation.
C16_Witness ==
    /\ rlast.op = "reconcile"
    /\ ~rlast.ok
    /\ \E i \in 1..Len(rlast.urls) : rlast.urls[i] \in WsUrls
    /\ config # DefaultConfig
    /\ config = rlast.before

\* C17: add(account, role, url) is idempotent: an add of a valid url that
\* the role's list holds already (a second add) succeeds and leaves the list
\* unchanged; after a successful add the url occurs in the list exactly once
\* (as often as before, if update_relays had stored it more than once).
C17_AddIdempotent ==
    (rlast.op = "add" /\ rlast.urls[1] \in WsUrls) =>
      /\ rlast.ok
      /\ OtherRolesUnchanged(rlast.role)
      /\ Occurrences(rlast.before[rlast.role], rlast.urls[1]) > 0 => config = rlast.before
      /\ ~rlast.reconciled => Occurrences(config[rlast.role], rlast.urls[1]) = 1
      /\ Occurrences(config[rlast.role], rlast.urls[1]) =
           IF Occurrences(rlast.before[rlast.role], rlast.urls[1]) > 0
           THEN Occurrences(rlast.before[rlast.role], rlast.urls[1]) ELSE 1

\* The second of two adds of a new url to one role.
C17_Witness ==
    /\ rlast.op = "add"
    /\ rlast.ok
    /\ rlast.count = 2
    /\ rlast.urls = << "wss://new.example" >>
    /\ ~rlast.reconciled
    /\ config = rlast.before
    /\ config[rlast.role] = Append(DefaultConfig[rlast.role], "wss://new.example")

\* C18: after a successful remove(account, role, url) the url is not in the
\* role's list, the other entries keep their order, and the other two roles
\* are unchanged; removing an absent url succeeds and changes nothing.
C18_RemoveDropsUrlKeepsOrder ==
    rlast.op = "remove" =>
      /\ rlast.ok =>
           /\ Occurrences(config[rlast.role], rlast.urls[1]) = 0
           /\ config[rlast.role] =
                SelectSeq(rlast.before[rlast.role], LAMBDA u : u # rlast.urls[1])
           /\ OtherRolesUnchanged(rlast.role)
      /\ Occurrences(rlast.before[rlast.role], rlast.urls[1]) = 0 =>
           /\ rlast.ok
           /\ config = rlast.before

\* A remove of a url from the middle of a list changed by an earlier add.
C18_Witness ==
    /\ rlast.op = "remove"
    /\ rlast.ok
    /\ rlast.role = "Nostr"
    /\ rlast.urls = << "wss://nos.lol" >>
    /\ rlast.before["Nostr"] = Append(DefaultConfig["Nostr"], "wss://new.example")
    /\ config["Nostr"] = <<"ws://localhost:10547", "wss://relay.damus.io",
                           "wss://relay.primal.net", "wss://relay.nostr.net",
                           "wss://new.example">>

\* C19: cleanupKnownBad always succeeds and leaves every role's list equal
\* to the previous list without the deny-listed urls, the order of the
\* other entries kept.
C19_CleanupRemovesDenyListed ==
    rlast.op = "cleanup" =>
      /\ rlast.ok
      /\ \A t \in RelayTypes :
           config[t] = SelectSeq(rlast.before[t], LAMBDA u : u \notin DenyListed)

\* A cleanup of a list that held both deny-listed urls around another entry.
C19_Witness ==
    /\ rlast.op = "cleanup"
    /\ \E t \in RelayTypes :
         /\ rlast.before[t] = <<"wss://purplepag.es", "wss://new.example",
                                "wss://relay.purplepag.es">>
         /\ config[t] = <<"wss://new.example">>

\* C20: no cached list holds a url twice: from the default configuration,
\* after any sequence of add, remove, cleanupKnownBad and the default-relay
\* setup, every role's list is duplicate-free.
C20_CacheDuplicateFree ==
    ~rlast.reconciled => \A t \in RelayTypes : NoDuplicates(config[t])

\* An add of a url the list holds already, made after the cache had been
\* changed, left every list duplicate-free.
C20_Witness ==
    /\ ~rlast.reconciled
    /\ rlast.op = "add"
    /\ rlast.ok
    /\ Occurrences(rlast.before[rlast.role], rlast.urls[1]) > 0
    /\ rlast.before # DefaultConfig
    /\ \A t \in RelayTypes : NoDuplicates(config[t])

(***************************************************************************)
(* GroupSpec: every caller that has a group created: the interactive menu  *)
(* (App::create_new_group), the `group create` command (which the batch    *)
(* GroupCreate operation runs too) and the DM resolution                   *)
(* (get_or_create_dm_group), while the relay cache is edited in between.   *)
(***************************************************************************)
\* The create_group request of the interactive menu: "create with just the
\* creator".
MenuCreateRequest(account, relays) ==
    [creator |-> account.pubkey,
     members |-> << account.pubkey >>,
     admins |-> << account.pubkey >>,
     relays |-> relays,
     kind |-> "group"]

\* The --members arguments of `group create` (None: the option is absent).
GroupMemberInputs ==
    { <<>>,
      << << to_hex(KeyB) >> >>,
      << << to_hex(KeyA) >> >>,
      << << to_hex(KeyB), to_hex(KeyC) >> >>,
      << << <<"z", "z">> >> >> }

GroupCall(caller, network_fetch, request, ok) ==
    [caller |-> caller, network_fetch |-> network_fetch, request |-> request,
     cache |-> config["Nostr"], ok |-> ok, count |-> glast.count + 1]

CanGroupOp ==
    /\ proc = "up"
    /\ current_account # <<>>
    /\ glast.count < MaxGroupOps

GroupFrame ==
    UNCHANGED <<clast, slast, keystore, klast, sessionVars, eng_accounts, callerVars, batchVars, historyVars>>

\* GroupManager::create_group and get_or_create_dm_group from the relay
\* selection on: the network fetch when the account's nip65 list is empty
\* (`?` on its failure), then whitenoise.create_group with the request
\* (`request` is the request of the caller, its relay list still to be set).
IssueCreate(caller, request, net_relays, eng_ok) ==
    LET account == current_account[1]
        fetch == account.nip65_relays = <<>>
        relays == GroupRelays(account, net_relays)
    IN IF relays = <<>>
       THEN /\ glast' = GroupCall(caller, fetch, <<>>, FALSE)
            /\ UNCHANGED <<eng_groups, last_request, created_for>>
       ELSE LET req == [request EXCEPT !.relays = relays[1]]
                made == EngineCreateGroup(eng_groups, req.creator, req.members,
                                          req.admins, eng_ok)
            IN /\ last_request' = << req >>
               /\ glast' = GroupCall(caller, fetch, << req >>, made # <<>>)
               /\ IF made = <<>>
                  THEN UNCHANGED <<eng_groups, created_for>>
                  ELSE /\ eng_groups' = Append(eng_groups, made[1])
                       /\ created_for' =
                            IF req.kind = "dm"
                            THEN [created_for EXCEPT ![req.members[1]] =
                                                       @ \cup {made[1].id}]
                            ELSE created_for

\* The menu entry "Create New Group": App::create_new_group.
MenuCreateGroup ==
    /\ CanGroupOp
    /\ \E net_relays \in {<<>>, << EngineDefaultRelays >>}, eng_ok \in BOOLEAN :
         IssueCreate("menu", MenuCreateRequest(current_account[1], <<>>),
                     net_relays, eng_ok)
    /\ GroupFrame

\* `group create [--members a,b]`: handle_group_command(Create); a member
\* that does not parse ends the command before anything is requested.
CommandCreateGroup ==
    /\ CanGroupOp
    /\ \E members \in GroupMemberInputs,
          net_relays \in {<<>>, << EngineDefaultRelays >>}, eng_ok \in BOOLEAN :
         LET keys == ParseMembers(members)
         IN IF keys = <<>>
            THEN /\ glast' = GroupCall("command", FALSE, <<>>, FALSE)
                 /\ UNCHANGED <<eng_groups, last_request, created_for>>
            ELSE IssueCreate("command",
                             GroupCreateRequest(current_account[1], keys[1], <<>>),
                             net_relays, eng_ok)
    /\ GroupFrame

\* GroupManager::get_or_create_dm_group, from its lookup to its return.
ResolveDm ==
    /\ CanGroupOp
    /\ \E peer \in Keys, fail_at \in LookupFailures(eng_groups),
          net_relays \in {<<>>, << EngineDefaultRelays >>}, eng_ok \in BOOLEAN :
         LET r == find_dm_group(eng_groups, current_account[1], peer, fail_at)
         IN IF ~r.ok \/ ~NeedsCreate(r.found)
            THEN /\ glast' = GroupCall("dm", FALSE, <<>>, r.ok)
                 /\ UNCHANGED <<eng_groups, last_request, created_for>>
            ELSE IssueCreate("dm",
                             DmCreateRequest(current_account[1], peer, <<>>),
                             net_relays, eng_ok)
    /\ GroupFrame

\* One edit of the cached general-relay list between the creations: a
\* reconcile, an add, a remove or the cleanup of the RelayManager.
EditRelayCache ==
    /\ CanGroupOp
    /\ rlast.count = 0
    /\ \E op \in {"reconcile", "add", "remove", "cleanup"} :
         LET url == IF op = "remove" THEN "wss://nos.lol" ELSE "wss://new.example"
             r == CASE op = "reconcile" -> update_relays(config, "Nostr", << url >>)
                    [] op = "add" -> add_relay_to_type(config, "Nostr", url)
                    [] op = "remove" -> remove_relay_from_type(config, "Nostr", url)
                    [] OTHER -> [ok |-> TRUE, config |-> cleanup_unwanted_relays(config)]
         IN /\ config' = r.config
            /\ rlast' = RelayOp(op, "Nostr", << url >>, r.ok, <<>>, op = "reconcile")
    /\ RelayFrame

GroupInit == RelayInit

GroupNext ==
    \/ MenuCreateGroup
    \/ CommandCreateGroup
    \/ ResolveDm
    \/ EditRelayCache

GroupSpec == GroupInit /\ [][GroupNext]_vars

\* The latest request a caller had the engine receive, if any.
Requested == glast.request # <<>>

(***************************************************************************)
(* C21: a DM group is requested with admins {account, peer} and members    *)
(* {peer}, and no request of any caller (DM resolution, `group create`,    *)
(* batch GroupCreate, interactive menu) names the creator among the        *)
(* explicit members.                                                       *)
(***************************************************************************)
C21_NoRequestListsCreator ==
    Requested =>
      LET req == glast.request[1]
      IN /\ req.creator \notin SeqToSet(req.members)
         /\ req.kind = "dm" =>
              /\ Len(req.members) = 1
              /\ SeqToSet(req.admins) = {req.creator, req.members[1]}

(***************************************************************************)
(* C22: every group-creation request (DM or multi-party) carries as its    *)
(* relay list the cached general-relay list of the RelayManager as the     *)
(* latest reconcile / add / remove / cleanup left it, and the engine's     *)
(* network relay fetch is issued only when that cached list is empty.      *)
(***************************************************************************)
C22_RequestCarriesCachedRelays ==
    /\ Requested => glast.request[1].relays = glast.cache
    /\ glast.network_fetch => glast.cache = <<>>

(***************************************************************************)
(* CommandSpec: one non-interactive process runs one command: the handler  *)
(* returns Ok(output) or Err(error), handle_command prints and the process *)
(* ends with an exit status.                                               *)
(***************************************************************************)
\* A handler that returns Ok with an error envelope for a refused request.
HandlerRefused(msg) == [ok |-> TRUE, text |-> msg, truth |-> "refused"]

\* Chat messages as the engine returns them for a group: in ascending order
\* of created_at (two messages may carry the same second), ids in that order.
Timestamps == 1..2

MessageLists ==
    UNION { { [i \in 1..n |-> [id |-> i, created_at |-> q[i]]] :
                q \in { f \in [1..n -> Timestamps] :
                          \A i \in 1..n, j \in 1..n : i <= j => f[i] <= f[j] } } :
            n \in 0..MaxMessages }

Limits == 0..MaxLimit

\* Iterator::rev
RECURSIVE Rev(_)
Rev(q) == IF q = <<>> THEN <<>> ELSE Append(Rev(Tail(q)), Head(q))

\* Iterator::take
Take(q, n) == SubSeq(q, 1, IF n < Len(q) THEN n ELSE Len(q))

\* A limit that keeps the oldest messages.
LimitMessages_Oldest(messages, limit) == Take(messages, limit)

\* messages.iter().rev().take(limit).rev().collect()
LimitMessages(messages, limit) == Rev(Take(Rev(messages), limit))

\* whitenoise.fetch_aggregated_messages_for_group: the messages of a group
\* the engine holds (None: the call failed).
EngineFetchMessages(groups, id, messages, eng_ok) ==
    IF eng_ok /\ \E i \in 1..Len(groups) : groups[i].id = id
    THEN << messages >>
    ELSE <<>>

\* A process that has parsed its command line and built its CliHandler.
CanRun ==
    /\ proc = "up"
    /\ clast.command = "none"

\* The process exits after handle_command; a listing changes nothing else.
CommandFrame ==
    /\ proc' = "exited"
    /\ UNCHANGED <<glast, slast, keystore, klast, current_account, pointer_file, last,
                   engineVars, callerVars, batchVars, historyVars>>

\* `group list`: handle_group_command(List).
CmdGroupList ==
    /\ CanRun
    /\ \E quiet \in BOOLEAN, eng_ok \in BOOLEAN :
         LET hr == IF current_account = <<>> THEN HandlerNoAccount
                   ELSE IF ~eng_ok THEN HandlerErr("Failed to fetch groups")
                   ELSE HandlerOk
         IN clast' = CommandOutcome("group list", hr, quiet, <<>>, 0, <<>>)
    /\ CommandFrame

\* `group join`: handle_group_command(Join).
CmdGroupJoin ==
    /\ CanRun
    /\ \E quiet \in BOOLEAN :
         clast' = CommandOutcome("group join",
                                 HandlerRefused("Join command requires interactive mode"),
                                 quiet, <<>>, 0, <<>>)
    /\ CommandFrame

\* `contact show --pubkey p`: handle_contact_command(Show).
CmdContactShow ==
    /\ CanRun
    /\ \E quiet \in BOOLEAN, pubkey \in {to_hex(KeyB), to_hex(KeyC)} :
         LET hr == IF \E c \in contacts : to_hex(c) = pubkey
                   THEN HandlerOk
                   ELSE HandlerRefused("Contact not found")
         IN clast' = CommandOutcome("contact show", hr, quiet, <<>>, 0, <<>>)
    /\ CommandFrame

\* The result of a listing handler: what it returns, the list the engine
\* gave and the limited list of the output (None: no listing was made).
Listing(hr, engine_messages, messages) ==
    [hr |-> hr, engine_messages |-> engine_messages, messages |-> messages]

\* handle_message_command(List): the group id is parsed, the messages are
\* fetched, the last `limit` of them are kept.
message_list(account, groups, group_id, limit, stored, eng_ok) ==
    IF account = <<>> THEN Listing(HandlerNoAccount, <<>>, <<>>)
    ELSE LET id == group_id_from_string(group_id)
         IN IF id = <<>> THEN Listing(HandlerErr("Invalid group id"), <<>>, <<>>)
            ELSE LET fetched == EngineFetchMessages(groups, id[1], stored, eng_ok)
                 IN IF fetched = <<>>
                    THEN Listing(HandlerErr("Failed to fetch aggregated messages"),
                                 <<>>, <<>>)
                    ELSE Listing(HandlerOk, fetched[1],
                                 << LimitMessages(fetched[1], limit) >>)

\* handle_message_command(ListDm): the contact is parsed, its DM group is
\* looked up; without one the output is a success envelope with no message.
message_list_dm(account, groups, contact, limit, stored, fail_at, eng_ok) ==
    IF account = <<>> THEN Listing(HandlerNoAccount, <<>>, <<>>)
    ELSE LET contact_key == ParseKey(contact)
         IN IF contact_key = <<>>
            THEN Listing(HandlerErr("Invalid public key"), <<>>, <<>>)
            ELSE LET r == find_dm_group(groups, account[1], contact_key[1], fail_at)
                 IN IF ~r.ok THEN Listing(HandlerErr("Failed to fetch groups"), <<>>, <<>>)
                    ELSE IF r.found = <<>> THEN Listing(HandlerOk, <<>>, << <<>> >>)
                    ELSE LET fetched == EngineFetchMessages(groups, r.found[1], stored,
                                                            eng_ok)
                         IN IF fetched = <<>>
                            THEN Listing(HandlerErr("Failed to fetch aggregated messages"),
                                         <<>>, <<>>)
                            ELSE Listing(HandlerOk, fetched[1],
                                         << LimitMessages(fetched[1], limit) >>)

\* `message list --group-id g --limit k`
CmdMessageList ==
    /\ CanRun
    /\ \E quiet \in BOOLEAN, eng_ok \in BOOLEAN, limit \in Limits,
          stored \in MessageLists, group_id \in {group_id_to_string(1), <<"z", "z">>} :
         LET l == message_list(current_account, eng_groups, group_id, limit, stored,
                               eng_ok)
         IN clast' = CommandOutcome("message list", l.hr, quiet, l.engine_messages,
                                    limit, l.messages)
    /\ CommandFrame

\* `message list-dm --contact c --limit k`
CmdMessageListDm ==
    /\ CanRun
    /\ \E quiet \in BOOLEAN, eng_ok \in BOOLEAN, limit \in Limits,
          stored \in MessageLists, contact \in {to_hex(KeyB), <<"z", "z">>},
          fail_at \in LookupFailures(eng_groups) :
         LET l == message_list_dm(current_account, eng_groups, contact, limit, stored,
                                  fail_at, eng_ok)
         IN clast' = CommandOutcome("message list-dm", l.hr, quiet, l.engine_messages,
                                    limit, l.messages)
    /\ CommandFrame

CommandInit ==
    /\ proc = "up"
    /\ current_account \in {<<>>, << Account(KeyA, EngineDefaultRelays) >>}
    /\ pointer_file = AbsentFile
    /\ last = NoLast
    /\ eng_accounts = [k \in Keys |-> IF k = KeyA THEN current_account ELSE <<>>]
    /\ eng_groups \in InitGroupLists
    /\ last_request = <<>>
    /\ created_for = [p \in Keys |-> {}]
    /\ CallersIdle
    /\ ops = <<>>
    /\ idx = 1
    /\ results = <<>>
    /\ dispatched = <<>>
    /\ bpc = "idle"
    /\ cur = NoCur
    /\ inflight = 0
    /\ contacts \in {{}, {KeyB}}
    /\ config = DefaultConfig
    /\ HistoryIdle

CommandNext ==
    \/ CmdGroupList
    \/ CmdGroupJoin
    \/ CmdContactShow
    \/ CmdMessageList
    \/ CmdMessageListDm

CommandSpec == CommandInit /\ [][CommandNext]_vars

\* A command has ended.
Ended == clast.exit_status # <<>>

(***************************************************************************)
(* C23: the exit status of a non-interactive command is 0 exactly when the *)
(* command succeeded; a command that ends in an error outcome (engine      *)
(* error, validation error, no active account where one is needed) prints  *)
(* the error through the output formatter and exits with status 1.         *)
(***************************************************************************)
C23_ExitStatusZeroIffSucceeded ==
    Ended =>
      /\ clast.exit_status = << 0 >> <=> clast.truth = "ok"
      /\ (clast.truth # "ok" /\ ~clast.quiet) => clast.printed # <<>>

(***************************************************************************)
(* C25: a history listing with limit K on a group of M stored messages     *)
(* returns exactly min(K, M) messages: the last min(K, M) of the engine's  *)
(* chronological list, in their original ascending order (none for K = 0,  *)
(* all for K >= M).                                                        *)
(***************************************************************************)
C25_HistoryIsLastKInOrder ==
    (Ended /\ clast.messages # <<>>) =>
      LET out == clast.messages[1]
          M == Len(clast.engine_messages)
          K == clast.limit
          n == IF K < M THEN K ELSE M
      IN /\ Len(out) = n
         /\ \A i \in 1..n : out[i] = clast.engine_messages[M - n + i]
         /\ \A i \in 1..n, j \in 1..n : i <= j => out[i].created_at <= out[j].created_at
         /\ K = 0 => out = <<>>
         /\ K >= M => out = clast.engine_messages

\* A listing with limit 2 of a group of three messages returned two.
C25_Witness ==
    /\ clast.command = "message list"
    /\ clast.messages # <<>>
    /\ clast.limit = 2
    /\ Len(clast.engine_messages) = 3
    /\ Len(clast.messages[1]) = 2

PointerValues == { to_hex(k) : k \in Keys }

StorageOp(op, ok, arg, loaded, stored) ==
    [op |-> op, ok |-> ok, arg |-> arg, loaded |-> loaded, before |-> pointer_file,
     stored |-> stored, count |-> slast.count + 1]

CanStorageOp ==
    /\ proc = "up"
    /\ slast.count < MaxStorageOps

StorageFrame ==
    UNCHANGED <<glast, clast, keystore, klast, proc, current_account, last, engineVars, callerVars,
                batchVars, historyVars>>

\* Storage::save_current_account_pubkey(pubkey)
StorageSave ==
    /\ CanStorageOp
    /\ \E pubkey \in PointerValues, wr \in WriteOutcomes :
         LET r == save_current_account_pubkey(pointer_file, pubkey, wr)
         IN /\ pointer_file' = r.file
            /\ slast' = StorageOp("save", r.ok, << pubkey >>, <<>>,
                                  [known |-> r.ok, value |-> << pubkey >>])
    /\ StorageFrame

\* Storage::load_current_account_pubkey()
StorageLoad ==
    /\ CanStorageOp
    /\ \E rd_ok \in BOOLEAN :
         LET r == load_current_account_pubkey(pointer_file, rd_ok)
         IN slast' = StorageOp("load", r.ok, <<>>, r.value, slast.stored)
    /\ UNCHANGED pointer_file
    /\ StorageFrame

\* Storage::clear_current_account()
StorageClear ==
    /\ CanStorageOp
    /\ \E rm_ok \in BOOLEAN :
         LET r == clear_current_account(pointer_file, rm_ok)
         IN /\ pointer_file' = r.file
            /\ slast' = StorageOp("clear", r.ok, <<>>, <<>>,
                                  [known |-> r.ok, value |-> <<>>])
    /\ StorageFrame

StorageInit ==
    /\ proc = "up"
    /\ current_account = <<>>
    /\ pointer_file \in PointerInits
    /\ last = NoLast
    /\ eng_accounts = [k \in Keys |-> <<>>]
    /\ eng_groups = <<>>
    /\ last_request = <<>>
    /\ created_for = [p \in Keys |-> {}]
    /\ CallersIdle
    /\ BatchIdle
    /\ HistoryIdle

StorageNext ==
    \/ StorageSave
    \/ StorageLoad
    \/ StorageClear

StorageSpec == StorageInit /\ [][StorageNext]_vars

(***************************************************************************)
(* C26: the persisted pointer round-trips.  A read that follows a write of *)
(* public-key hex X returns X unchanged (the latest write wins), a read    *)
(* that follows a clear returns none, and a clear with no pointer stored   *)
(* succeeds.  (Writes, clears and reads that the file system failed are    *)
(* not the claim's case.)                                                  *)
(***************************************************************************)
C26_PointerRoundTrips ==
    /\ (slast.op = "load" /\ slast.ok /\ slast.stored.known) =>
         slast.loaded = slast.stored.value
    /\ (slast.op = "clear" /\ ~slast.before.exists) =>
         slast.ok /\ pointer_file = slast.before

\* Two writes, then a read that returned the second.
C26_Witness ==
    /\ slast.op = "load"
    /\ slast.ok
    /\ slast.count = 3
    /\ slast.stored = [known |-> TRUE, value |-> << to_hex(KeyB) >>]
    /\ slast.loaded = << to_hex(KeyB) >>
    /\ slast.before.exists

(***************************************************************************)
(* KeySpec: the file key store (keyring_helper.rs).  A string is the       *)
(* sequence of its UTF-8 bytes; a base64 text is a sequence of             *)
(* one-character strings.                                                  *)
(***************************************************************************)
\* b"WhiteNoiseCLI2024"
ObfuscationKey == <<87, 104, 105, 116, 101, 78, 111, 105, 115, 101, 67, 76, 73, 50, 48, 50, 52>>

\* byte ^ byte
RECURSIVE Xor(_, _)
Xor(a, b) ==
    IF a = 0 /\ b = 0 THEN 0
    ELSE (((a % 2) + (b % 2)) % 2) + 2 * Xor(a \div 2, b \div 2)

\* The alphabet of base64::engine::general_purpose::STANDARD; "=" pads.
Base64Alphabet ==
    << "A", "B", "C", "D", "E", "F", "G", "H", "I", "J", "K", "L", "M", "N", "O", "P",
      "Q", "R", "S", "T", "U", "V", "W", "X", "Y", "Z", "a", "b", "c", "d", "e", "f",
      "g", "h", "i", "j", "k", "l", "m", "n", "o", "p", "q", "r", "s", "t", "u", "v",
      "w", "x", "y", "z", "0", "1", "2", "3", "4", "5", "6", "7", "8", "9", "+", "/">>

Base64Pad == "="

\* The 6-bit value of a base64 character (-1: not in the alphabet).
Sextet(c) ==
    IF \E i \in 1..Len(Base64Alphabet) : Base64Alphabet[i] = c
    THEN (CHOOSE i \in 1..Len(Base64Alphabet) : Base64Alphabet[i] = c) - 1
    ELSE -1

\* STANDARD.encode: three bytes to four characters, the tail padded.
RECURSIVE Base64Encode(_)
Base64Encode(bytes) ==
    IF bytes = <<>> THEN <<>>
    ELSE IF Len(bytes) = 1
    THEN LET n == bytes[1] * 65536
         IN << Base64Alphabet[(n \div 262144) + 1],
               Base64Alphabet[((n \div 4096) % 64) + 1], Base64Pad, Base64Pad >>
    ELSE IF Len(bytes) = 2
    THEN LET n == bytes[1] * 65536 + bytes[2] * 256
         IN << Base64Alphabet[(n \div 262144) + 1],
               Base64Alphabet[((n \div 4096) % 64) + 1],
               Base64Alphabet[((n \div 64) % 64) + 1], Base64Pad >>
    ELSE LET n == bytes[1] * 65536 + bytes[2] * 256 + bytes[3]
         IN << Base64Alphabet[(n \div 262144) + 1],
               Base64Alphabet[((n \div 4096) % 64) + 1],
               Base64Alphabet[((n \div 64) % 64) + 1],
               Base64Alphabet[(n % 64) + 1] >>
            \o Base64Encode(SubSeq(bytes, 4, Len(bytes)))

\* STANDARD.decode: Some(bytes), or None for a text that is not canonical
\* padded base64 (length, alphabet, padding, trailing bits).
RECURSIVE Base64Decode(_)
Base64Decode(text) ==
    IF text = <<>> THEN << <<>> >>
    ELSE IF Len(text) < 4 THEN <<>>
    ELSE LET rest == SubSeq(text, 5, Len(text))
             pads == IF text[4] # Base64Pad THEN 0
                     ELSE IF text[3] # Base64Pad THEN 1 ELSE 2
             s == [i \in 1..4 |-> IF i > 4 - pads THEN 0 ELSE Sextet(text[i])]
             n == s[1] * 262144 + s[2] * 4096 + s[3] * 64 + s[4]
             three == << n \div 65536, (n \div 256) % 256, n % 256 >>
             tail == IF rest = <<>> THEN << <<>> >> ELSE Base64Decode(rest)
         IN IF \/ \E i \in 1..4 : s[i] = -1
               \/ pads > 0 /\ rest # <<>>
               \/ pads = 1 /\ n % 256 # 0
               \/ pads = 2 /\ n % 65536 # 0
               \/ tail = <<>>
            THEN <<>>
            ELSE << SubSeq(three, 1, 3 - pads) \o tail[1] >>

\* String::from_utf8 accepts the bytes (one- to four-byte sequences; the
\* strings of the model hold no overlong or surrogate form).
RECURSIVE ValidUtf8(_)
ValidUtf8(bytes) ==
    IF bytes = <<>> THEN TRUE
    ELSE LET b == bytes[1]
             more == IF b < 128 THEN 0
                     ELSE IF b >= 194 /\ b < 224 THEN 1
                     ELSE IF b >= 224 /\ b < 240 THEN 2
                     ELSE IF b >= 240 /\ b < 245 THEN 3
                     ELSE -1
         IN /\ more >= 0
            /\ Len(bytes) >= 1 + more
            /\ \A i \in 2..(1 + more) : bytes[i] >= 128 /\ bytes[i] < 192
            /\ ValidUtf8(SubSeq(bytes, 2 + more, Len(bytes)))

\* The xor of the bytes with the key repeated, the step of both directions.
XorWithKey(bytes) ==
    [i \in 1..Len(bytes) |->
       Xor(bytes[i], ObfuscationKey[((i - 1) % Len(ObfuscationKey)) + 1])]

\* An obfuscation that starts the key at its second byte.
obfuscate_ShiftedKey(data) ==
    Base64Encode([i \in 1..Len(data) |->
                    Xor(data[i], ObfuscationKey[(i % Len(ObfuscationKey)) + 1])])

\* KeyringHelper::obfuscate
obfuscate(data) == Base64Encode(XorWithKey(data))

\* KeyringHelper::deobfuscate: Err when the text is not base64 or the bytes
\* are not UTF-8.
deobfuscate(obfuscated) ==
    LET data == Base64Decode(obfuscated)
    IN IF data = <<>> THEN [ok |-> FALSE, value |-> <<>>]
       ELSE LET bytes == XorWithKey(data[1])
            IN IF ValidUtf8(bytes) THEN [ok |-> TRUE, value |-> << bytes >>]
               ELSE [ok |-> FALSE, value |-> <<>>]

\* The private-key strings stored: the empty string, "a", "ab", "abc", an
\* e-acute followed by "1", and "test_private_key_12345".
PrivateKeyInputs ==
    { <<>>,
      <<97>>,
      <<97, 98>>,
      <<97, 98, 99>>,
      <<195, 169, 49>>,
      <<116, 101, 115, 116, 95, 112, 114, 105, 118, 97, 116, 101, 95, 107, 101, 121, 95, 49, 50, 51, 52, 53>> }

\* How save_store can end: as std::fs::write can, or with the file written
\* and the change of its permissions failed.
SaveOutcomes == WriteOutcomes \cup {"permissions_failed"}

\* KeyringHelper::load_store: Some(keys), None when the file exists and
\* cannot be read or parsed.
load_store(store, rd_ok) ==
    IF ~store.exists THEN << AbsentStore.keys >>
    ELSE IF rd_ok /\ store.readable THEN << store.keys >>
    ELSE <<>>

\* KeyringHelper::save_store
save_store(store, keys, wr) ==
    CASE wr = "written" ->
            [ok |-> TRUE, store |-> [exists |-> TRUE, readable |-> TRUE, keys |-> keys]]
      [] wr = "permissions_failed" ->
            [ok |-> FALSE, store |-> [exists |-> TRUE, readable |-> TRUE, keys |-> keys]]
      [] wr = "failed_untouched" ->
            [ok |-> FALSE, store |-> store]
      [] OTHER ->
            [ok |-> FALSE,
             store |-> [exists |-> TRUE, readable |-> FALSE, keys |-> AbsentStore.keys]]

KeyOp(op, ok, pubkey, privkey, value, loaded, held) ==
    [op |-> op, ok |-> ok, pubkey |-> pubkey, privkey |-> privkey, value |-> value,
     loaded |-> loaded, held |-> held, count |-> klast.count + 1]

CanKeyOp ==
    /\ proc = "up"
    /\ klast.count < MaxKeyOps

KeyFrame ==
    UNCHANGED <<glast, clast, slast, sessionVars, engineVars, callerVars, batchVars,
                historyVars>>

\* KeyringHelper::store_key(pubkey, privkey)
StoreKey ==
    /\ CanKeyOp
    /\ \E pubkey \in StoreKeys, privkey \in PrivateKeyInputs, rd_ok \in BOOLEAN,
          wr \in SaveOutcomes :
         LET loaded == load_store(keystore, rd_ok)
         IN IF loaded = <<>>
            THEN /\ klast' = KeyOp("store", FALSE, << pubkey >>, << privkey >>, <<>>,
                                   FALSE, klast.held)
                 /\ UNCHANGED keystore
            ELSE LET keys == [loaded[1] EXCEPT ![pubkey] = << obfuscate(privkey) >>]
                     saved == save_store(keystore, keys, wr)
                 IN /\ keystore' = saved.store
                    /\ klast' = KeyOp("store", saved.ok, << pubkey >>, << privkey >>,
                                      <<>>, TRUE,
                                      [klast.held EXCEPT ![pubkey] =
                                         [known |-> saved.ok, value |-> << privkey >>]])
    /\ KeyFrame

\* KeyringHelper::get_key(pubkey): Ok(Some(privkey)), Ok(None) or Err.
GetKey ==
    /\ CanKeyOp
    /\ \E pubkey \in StoreKeys, rd_ok \in BOOLEAN :
         LET loaded == load_store(keystore, rd_ok)
         IN IF loaded = <<>>
            THEN klast' = KeyOp("get", FALSE, << pubkey >>, <<>>, <<>>, FALSE, klast.held)
            ELSE IF loaded[1][pubkey] = <<>>
            THEN klast' = KeyOp("get", TRUE, << pubkey >>, <<>>, <<>>, TRUE, klast.held)
            ELSE LET r == deobfuscate(loaded[1][pubkey][1])
                 IN klast' = KeyOp("get", r.ok, << pubkey >>, <<>>, r.value, TRUE,
                                   klast.held)
    /\ UNCHANGED keystore
    /\ KeyFrame

\* KeyringHelper::remove_key(pubkey)
RemoveKey ==
    /\ CanKeyOp
    /\ \E pubkey \in StoreKeys, rd_ok \in BOOLEAN, wr \in SaveOutcomes :
         LET loaded == load_store(keystore, rd_ok)
         IN IF loaded = <<>>
            THEN /\ klast' = KeyOp("remove", FALSE, << pubkey >>, <<>>, <<>>, FALSE,
                                   klast.held)
                 /\ UNCHANGED keystore
            ELSE LET keys == [loaded[1] EXCEPT ![pubkey] = <<>>]
                     saved == save_store(keystore, keys, wr)
                 IN /\ keystore' = saved.store
                    /\ klast' = KeyOp("remove", saved.ok, << pubkey >>, <<>>, <<>>, TRUE,
                                      [klast.held EXCEPT ![pubkey] =
                                         [known |-> saved.ok, value |-> <<>>]])
    /\ KeyFrame

KeyInit ==
    /\ StorageInit
    /\ pointer_file = AbsentFile

KeyNext ==
    \/ StoreKey
    \/ GetKey
    \/ RemoveKey

KeySpec == KeyInit /\ [][KeyNext]_vars

(***************************************************************************)
(* C27: the obfuscation of the key store round-trips: deobfuscate          *)
(* succeeds on obfuscate(s) and returns s, so get_key for a public key     *)
(* returns unchanged the private key that store_key stored under it.       *)
(* (get_key is one whose load of the store file succeeded.)                *)
(***************************************************************************)
C27_StoredKeyRoundTrips ==
    ( /\ klast.op = "get"
      /\ klast.loaded
      /\ klast.held[klast.pubkey[1]].known ) =>
        /\ klast.ok
        /\ klast.value = klast.held[klast.pubkey[1]].value

\* A private key longer than the obfuscation key was stored and read back.
C27_Witness ==
    /\ klast.op = "get"
    /\ klast.ok
    /\ klast.loaded
    /\ klast.held[to_hex(KeyA)].known
    /\ klast.pubkey = << to_hex(KeyA) >>
    /\ klast.value # <<>>
    /\ Len(klast.value[1]) > Len(ObfuscationKey)
    /\ keystore.keys[to_hex(KeyA)] # <<>>
    /\ keystore.keys[to_hex(KeyA)][1] # klast.value[1]

(***************************************************************************)
(* C28: whenever an operation has made an account active (login, identity  *)
(* creation, selection by --account), the persisted pointer names that     *)
(* account, so that the resume of the next process start makes the same    *)
(* account active.                                                         *)
(***************************************************************************)
C28_ActivePointerNamesAccount ==
    ( /\ last.op \in {"login", "create", "select"}
      /\ last.ok
      /\ current_account # <<>> ) =>
        PersistedPointer = << to_hex(current_account[1].pubkey) >>

(***************************************************************************)
(* C29: a login or a logout that returns an error leaves the session       *)
(* unchanged: the active account and the persisted pointer are after the   *)
(* call what they were before it, also when the failing step is the write  *)
(* or the removal of the persisted pointer, or the engine's logout         *)
(* notification.                                                           *)
(***************************************************************************)
C29_FailedLoginLogoutChangesNothing ==
    (last.op \in {"login", "logout"} /\ ~last.ok) =>
      /\ current_account = last.before_account
      /\ pointer_file = last.before_pointer

(***************************************************************************)
(* C30: whenever find_dm_group(account, peer) returns a group, the member  *)
(* set of that group is exactly {account, peer}; in particular, for        *)
(* peer = account it never returns a two-member DM group that contains a   *)
(* third party.                                                            *)
(***************************************************************************)
C30_FoundGroupIsExactlyThePair ==
    \A c \in Callers :
      (cpc[c] # "idle" /\ ccall[c].lookup_ok /\ ccall[c].found # <<>>) =>
        \A i \in 1..Len(eng_groups) :
          eng_groups[i].id = ccall[c].found[1] =>
            eng_groups[i].members = {ActiveKey, ccall[c].peer}

====
